---------------------------- MODULE Spec2Model ----------------------------
(***************************************************************************)
(* Gl JNI glue (src/src/edu/mines/jves/opengl/Gl.cpp): the exported entry   *)
(* points Java_edu_mines_jves_opengl_Gl_<name>, each of which marshals its  *)
(* array/buffer parameters into views, calls one native OpenGL function    *)
(* and maps the result back, inside JNI_TRY ... JNI_CATCH.                  *)
(***************************************************************************)
EXTENDS Integers, Sequences, FiniteSets, TLC

VARIABLES
  gl,       \* state of the native OpenGL library reached through the glue
  refgl,    \* state of a second native library driven by direct native calls
  heap,     \* the caller's managed arrays and direct buffers, by reference id
  views,    \* array/buffer views the glue still holds between calls
  last,     \* what the caller and the native library saw of the latest call
  held,     \* a string the caller kept from an earlier glGetString call
  alive,    \* the process has not been brought down by an uncaught fault
  clean,    \* no call so far has faulted
  ncalls,   \* number of entry-point calls made so far
  thr       \* the caller's threads: where each is in its call, and its context

vars == <<gl, refgl, heap, views, last, held, alive, clean, ncalls, thr>>

\* An argument expression of a native call: the i-th parameter of the entry
\* point, or the i-th view local declared in its body.
P(i) == [k |-> "param", i |-> i]
V(i) == [k |-> "view", i |-> i]

(***************************************************************************)
(* The entry points of Gl.cpp in file order.  name, sig: the macro argument *)
(* name__sig (the exported symbol is Java_edu_mines_jves_opengl_Gl_ followed *)
(* by it, with an n before it under JNI_GL_DECLARE2); decl, begin: the      *)
(* macros that open the declaration and the body (JNI_GL_DECLARE2 adds the  *)
(* leading jlong pfunc); rtype: the declared return type; native: the       *)
(* function called (under JNI_GL_DECLARE2 the PFNGL<NAME>PROC the handle is *)
(* cast to); params: the declared parameter types after env, cls (and      *)
(* pfunc); views: the J*Array/J*Buffer locals in declaration order, each    *)
(* with the parameter it wraps; args: the argument list of the native      *)
(* call; ret: the form of the return statement.                             *)
(***************************************************************************)
Gl_cpp == <<
  [name |-> "glAccum", sig |-> "", decl |-> "JNI_GL_DECLARE1", begin |-> "JNI_GL_BEGIN1", rtype |-> "void", native |-> "glAccum",
   params |-> <<"jint", "jfloat">>,
   views |-> <<>>,
   args |-> <<P(1), P(2)>>, ret |-> "none"],
  [name |-> "glAlphaFunc", sig |-> "", decl |-> "JNI_GL_DECLARE1", begin |-> "JNI_GL_BEGIN1", rtype |-> "void", native |-> "glAlphaFunc",
   params |-> <<"jint", "jfloat">>,
   views |-> <<>>,
   args |-> <<P(1), P(2)>>, ret |-> "none"],
  [name |-> "glAreTexturesResident", sig |-> "", decl |-> "JNI_GL_DECLARE_RETURN1", begin |-> "JNI_GL_BEGIN1", rtype |-> "jboolean", native |-> "glAreTexturesResident",
   params |-> <<"jint", "jintArray", "jbyteArray">>,
   views |-> <<[t |-> "JuintArray", p |-> 2], [t |-> "JubyteArray", p |-> 3]>>,
   args |-> <<P(1), V(1), V(2)>>, ret |-> "eqGL_TRUE"],
  [name |-> "glArrayElement", sig |-> "", decl |-> "JNI_GL_DECLARE1", begin |-> "JNI_GL_BEGIN1", rtype |-> "void", native |-> "glArrayElement",
   params |-> <<"jint">>,
   views |-> <<>>,
   args |-> <<P(1)>>, ret |-> "none"],
  [name |-> "glBegin", sig |-> "", decl |-> "JNI_GL_DECLARE1", begin |-> "JNI_GL_BEGIN1", rtype |-> "void", native |-> "glBegin",
   params |-> <<"jint">>,
   views |-> <<>>,
   args |-> <<P(1)>>, ret |-> "none"],
  [name |-> "glBindTexture", sig |-> "", decl |-> "JNI_GL_DECLARE1", begin |-> "JNI_GL_BEGIN1", rtype |-> "void", native |-> "glBindTexture",
   params |-> <<"jint", "jint">>,
   views |-> <<>>,
   args |-> <<P(1), P(2)>>, ret |-> "none"],
  [name |-> "glBitmap", sig |-> "", decl |-> "JNI_GL_DECLARE1", begin |-> "JNI_GL_BEGIN1", rtype |-> "void", native |-> "glBitmap",
   params |-> <<"jint", "jint", "jfloat", "jfloat", "jfloat", "jfloat", "jbyteArray">>,
   views |-> <<[t |-> "JubyteArray", p |-> 7]>>,
   args |-> <<P(1), P(2), P(3), P(4), P(5), P(6), V(1)>>, ret |-> "none"],
  [name |-> "glBlendFunc", sig |-> "", decl |-> "JNI_GL_DECLARE1", begin |-> "JNI_GL_BEGIN1", rtype |-> "void", native |-> "glBlendFunc",
   params |-> <<"jint", "jint">>,
   views |-> <<>>,
   args |-> <<P(1), P(2)>>, ret |-> "none"],
  [name |-> "glCallList", sig |-> "", decl |-> "JNI_GL_DECLARE1", begin |-> "JNI_GL_BEGIN1", rtype |-> "void", native |-> "glCallList",
   params |-> <<"jint">>,
   views |-> <<>>,
   args |-> <<P(1)>>, ret |-> "none"],
  [name |-> "glCallLists", sig |-> "II_3B", decl |-> "JNI_GL_DECLARE1", begin |-> "JNI_GL_BEGIN1", rtype |-> "void", native |-> "glCallLists",
   params |-> <<"jint", "jint", "jbyteArray">>,
   views |-> <<[t |-> "JvoidArray", p |-> 3]>>,
   args |-> <<P(1), P(2), V(1)>>, ret |-> "none"],
  [name |-> "glCallLists", sig |-> "II_3I", decl |-> "JNI_GL_DECLARE1", begin |-> "JNI_GL_BEGIN1", rtype |-> "void", native |-> "glCallLists",
   params |-> <<"jint", "jint", "jintArray">>,
   views |-> <<[t |-> "JvoidArray", p |-> 3]>>,
   args |-> <<P(1), P(2), V(1)>>, ret |-> "none"],
  [name |-> "glCallLists", sig |-> "II_3S", decl |-> "JNI_GL_DECLARE1", begin |-> "JNI_GL_BEGIN1", rtype |-> "void", native |-> "glCallLists",
   params |-> <<"jint", "jint", "jshortArray">>,
   views |-> <<[t |-> "JvoidArray", p |-> 3]>>,
   args |-> <<P(1), P(2), V(1)>>, ret |-> "none"],
  [name |-> "glClear", sig |-> "", decl |-> "JNI_GL_DECLARE1", begin |-> "JNI_GL_BEGIN1", rtype |-> "void", native |-> "glClear",
   params |-> <<"jint">>,
   views |-> <<>>,
   args |-> <<P(1)>>, ret |-> "none"],
  [name |-> "glClearAccum", sig |-> "", decl |-> "JNI_GL_DECLARE1", begin |-> "JNI_GL_BEGIN1", rtype |-> "void", native |-> "glClearAccum",
   params |-> <<"jfloat", "jfloat", "jfloat", "jfloat">>,
   views |-> <<>>,
   args |-> <<P(1), P(2), P(3), P(4)>>, ret |-> "none"],
  [name |-> "glClearColor", sig |-> "", decl |-> "JNI_GL_DECLARE1", begin |-> "JNI_GL_BEGIN1", rtype |-> "void", native |-> "glClearColor",
   params |-> <<"jfloat", "jfloat", "jfloat", "jfloat">>,
   views |-> <<>>,
   args |-> <<P(1), P(2), P(3), P(4)>>, ret |-> "none"],
  [name |-> "glClearDepth", sig |-> "", decl |-> "JNI_GL_DECLARE1", begin |-> "JNI_GL_BEGIN1", rtype |-> "void", native |-> "glClearDepth",
   params |-> <<"jdouble">>,
   views |-> <<>>,
   args |-> <<P(1)>>, ret |-> "none"],
  [name |-> "glClearIndex", sig |-> "", decl |-> "JNI_GL_DECLARE1", begin |-> "JNI_GL_BEGIN1", rtype |-> "void", native |-> "glClearIndex",
   params |-> <<"jfloat">>,
   views |-> <<>>,
   args |-> <<P(1)>>, ret |-> "none"],
  [name |-> "glClearStencil", sig |-> "", decl |-> "JNI_GL_DECLARE1", begin |-> "JNI_GL_BEGIN1", rtype |-> "void", native |-> "glClearStencil",
   params |-> <<"jint">>,
   views |-> <<>>,
   args |-> <<P(1)>>, ret |-> "none"],
  [name |-> "glClipPlane", sig |-> "", decl |-> "JNI_GL_DECLARE1", begin |-> "JNI_GL_BEGIN1", rtype |-> "void", native |-> "glClipPlane",
   params |-> <<"jint", "jdoubleArray">>,
   views |-> <<[t |-> "JdoubleArray", p |-> 2]>>,
   args |-> <<P(1), V(1)>>, ret |-> "none"],
  [name |-> "glColor3b", sig |-> "", decl |-> "JNI_GL_DECLARE1", begin |-> "JNI_GL_BEGIN1", rtype |-> "void", native |-> "glColor3b",
   params |-> <<"jbyte", "jbyte", "jbyte">>,
   views |-> <<>>,
   args |-> <<P(1), P(2), P(3)>>, ret |-> "none"],
  [name |-> "glColor3bv", sig |-> "", decl |-> "JNI_GL_DECLARE1", begin |-> "JNI_GL_BEGIN1", rtype |-> "void", native |-> "glColor3bv",
   params |-> <<"jbyteArray">>,
   views |-> <<[t |-> "JbyteArray", p |-> 1]>>,
   args |-> <<V(1)>>, ret |-> "none"],
  [name |-> "glColor3d", sig |-> "", decl |-> "JNI_GL_DECLARE1", begin |-> "JNI_GL_BEGIN1", rtype |-> "void", native |-> "glColor3d",
   params |-> <<"jdouble", "jdouble", "jdouble">>,
   views |-> <<>>,
   args |-> <<P(1), P(2), P(3)>>, ret |-> "none"],
  [name |-> "glColor3dv", sig |-> "", decl |-> "JNI_GL_DECLARE1", begin |-> "JNI_GL_BEGIN1", rtype |-> "void", native |-> "glColor3dv",
   params |-> <<"jdoubleArray">>,
   views |-> <<[t |-> "JdoubleArray", p |-> 1]>>,
   args |-> <<V(1)>>, ret |-> "none"],
  [name |-> "glColor3f", sig |-> "", decl |-> "JNI_GL_DECLARE1", begin |-> "JNI_GL_BEGIN1", rtype |-> "void", native |-> "glColor3f",
   params |-> <<"jfloat", "jfloat", "jfloat">>,
   views |-> <<>>,
   args |-> <<P(1), P(2), P(3)>>, ret |-> "none"],
  [name |-> "glColor3fv", sig |-> "", decl |-> "JNI_GL_DECLARE1", begin |-> "JNI_GL_BEGIN1", rtype |-> "void", native |-> "glColor3fv",
   params |-> <<"jfloatArray">>,
   views |-> <<[t |-> "JfloatArray", p |-> 1]>>,
   args |-> <<V(1)>>, ret |-> "none"],
  [name |-> "glColor3i", sig |-> "", decl |-> "JNI_GL_DECLARE1", begin |-> "JNI_GL_BEGIN1", rtype |-> "void", native |-> "glColor3i",
   params |-> <<"jint", "jint", "jint">>,
   views |-> <<>>,
   args |-> <<P(1), P(2), P(3)>>, ret |-> "none"],
  [name |-> "glColor3iv", sig |-> "", decl |-> "JNI_GL_DECLARE1", begin |-> "JNI_GL_BEGIN1", rtype |-> "void", native |-> "glColor3iv",
   params |-> <<"jintArray">>,
   views |-> <<[t |-> "JintArray", p |-> 1]>>,
   args |-> <<V(1)>>, ret |-> "none"],
  [name |-> "glColor3s", sig |-> "", decl |-> "JNI_GL_DECLARE1", begin |-> "JNI_GL_BEGIN1", rtype |-> "void", native |-> "glColor3s",
   params |-> <<"jshort", "jshort", "jshort">>,
   views |-> <<>>,
   args |-> <<P(1), P(2), P(3)>>, ret |-> "none"],
  [name |-> "glColor3sv", sig |-> "", decl |-> "JNI_GL_DECLARE1", begin |-> "JNI_GL_BEGIN1", rtype |-> "void", native |-> "glColor3sv",
   params |-> <<"jshortArray">>,
   views |-> <<[t |-> "JshortArray", p |-> 1]>>,
   args |-> <<V(1)>>, ret |-> "none"],
  [name |-> "glColor4b", sig |-> "", decl |-> "JNI_GL_DECLARE1", begin |-> "JNI_GL_BEGIN1", rtype |-> "void", native |-> "glColor4b",
   params |-> <<"jbyte", "jbyte", "jbyte", "jbyte">>,
   views |-> <<>>,
   args |-> <<P(1), P(2), P(3), P(4)>>, ret |-> "none"],
  [name |-> "glColor4bv", sig |-> "", decl |-> "JNI_GL_DECLARE1", begin |-> "JNI_GL_BEGIN1", rtype |-> "void", native |-> "glColor4bv",
   params |-> <<"jbyteArray">>,
   views |-> <<[t |-> "JbyteArray", p |-> 1]>>,
   args |-> <<V(1)>>, ret |-> "none"],
  [name |-> "glColor4d", sig |-> "", decl |-> "JNI_GL_DECLARE1", begin |-> "JNI_GL_BEGIN1", rtype |-> "void", native |-> "glColor4d",
   params |-> <<"jdouble", "jdouble", "jdouble", "jdouble">>,
   views |-> <<>>,
   args |-> <<P(1), P(2), P(3), P(4)>>, ret |-> "none"],
  [name |-> "glColor4dv", sig |-> "", decl |-> "JNI_GL_DECLARE1", begin |-> "JNI_GL_BEGIN1", rtype |-> "void", native |-> "glColor4dv",
   params |-> <<"jdoubleArray">>,
   views |-> <<[t |-> "JdoubleArray", p |-> 1]>>,
   args |-> <<V(1)>>, ret |-> "none"],
  [name |-> "glColor4f", sig |-> "", decl |-> "JNI_GL_DECLARE1", begin |-> "JNI_GL_BEGIN1", rtype |-> "void", native |-> "glColor4f",
   params |-> <<"jfloat", "jfloat", "jfloat", "jfloat">>,
   views |-> <<>>,
   args |-> <<P(1), P(2), P(3), P(4)>>, ret |-> "none"],
  [name |-> "glColor4fv", sig |-> "", decl |-> "JNI_GL_DECLARE1", begin |-> "JNI_GL_BEGIN1", rtype |-> "void", native |-> "glColor4fv",
   params |-> <<"jfloatArray">>,
   views |-> <<[t |-> "JfloatArray", p |-> 1]>>,
   args |-> <<V(1)>>, ret |-> "none"],
  [name |-> "glColor4i", sig |-> "", decl |-> "JNI_GL_DECLARE1", begin |-> "JNI_GL_BEGIN1", rtype |-> "void", native |-> "glColor4i",
   params |-> <<"jint", "jint", "jint", "jint">>,
   views |-> <<>>,
   args |-> <<P(1), P(2), P(3), P(4)>>, ret |-> "none"],
  [name |-> "glColor4iv", sig |-> "", decl |-> "JNI_GL_DECLARE1", begin |-> "JNI_GL_BEGIN1", rtype |-> "void", native |-> "glColor4iv",
   params |-> <<"jintArray">>,
   views |-> <<[t |-> "JintArray", p |-> 1]>>,
   args |-> <<V(1)>>, ret |-> "none"],
  [name |-> "glColor4s", sig |-> "", decl |-> "JNI_GL_DECLARE1", begin |-> "JNI_GL_BEGIN1", rtype |-> "void", native |-> "glColor4s",
   params |-> <<"jshort", "jshort", "jshort", "jshort">>,
   views |-> <<>>,
   args |-> <<P(1), P(2), P(3), P(4)>>, ret |-> "none"],
  [name |-> "glColor4sv", sig |-> "", decl |-> "JNI_GL_DECLARE1", begin |-> "JNI_GL_BEGIN1", rtype |-> "void", native |-> "glColor4sv",
   params |-> <<"jshortArray">>,
   views |-> <<[t |-> "JshortArray", p |-> 1]>>,
   args |-> <<V(1)>>, ret |-> "none"],
  [name |-> "glColorMask", sig |-> "", decl |-> "JNI_GL_DECLARE1", begin |-> "JNI_GL_BEGIN1", rtype |-> "void", native |-> "glColorMask",
   params |-> <<"jbyte", "jbyte", "jbyte", "jbyte">>,
   views |-> <<>>,
   args |-> <<P(1), P(2), P(3), P(4)>>, ret |-> "none"],
  [name |-> "glColorMaterial", sig |-> "", decl |-> "JNI_GL_DECLARE1", begin |-> "JNI_GL_BEGIN1", rtype |-> "void", native |-> "glColorMaterial",
   params |-> <<"jint", "jint">>,
   views |-> <<>>,
   args |-> <<P(1), P(2)>>, ret |-> "none"],
  [name |-> "glColorPointer", sig |-> "", decl |-> "JNI_GL_DECLARE1", begin |-> "JNI_GL_BEGIN1", rtype |-> "void", native |-> "glColorPointer",
   params |-> <<"jint", "jint", "jint", "jobject">>,
   views |-> <<[t |-> "JvoidBuffer", p |-> 4]>>,
   args |-> <<P(1), P(2), P(3), V(1)>>, ret |-> "none"],
  [name |-> "glCopyPixels", sig |-> "", decl |-> "JNI_GL_DECLARE1", begin |-> "JNI_GL_BEGIN1", rtype |-> "void", native |-> "glCopyPixels",
   params |-> <<"jint", "jint", "jint", "jint", "jint">>,
   views |-> <<>>,
   args |-> <<P(1), P(2), P(3), P(4), P(5)>>, ret |-> "none"],
  [name |-> "glCopyTexImage1D", sig |-> "", decl |-> "JNI_GL_DECLARE1", begin |-> "JNI_GL_BEGIN1", rtype |-> "void", native |-> "glCopyTexImage1D",
   params |-> <<"jint", "jint", "jint", "jint", "jint", "jint", "jint">>,
   views |-> <<>>,
   args |-> <<P(1), P(2), P(3), P(4), P(5), P(6), P(7)>>, ret |-> "none"],
  [name |-> "glCopyTexImage2D", sig |-> "", decl |-> "JNI_GL_DECLARE1", begin |-> "JNI_GL_BEGIN1", rtype |-> "void", native |-> "glCopyTexImage2D",
   params |-> <<"jint", "jint", "jint", "jint", "jint", "jint", "jint", "jint">>,
   views |-> <<>>,
   args |-> <<P(1), P(2), P(3), P(4), P(5), P(6), P(7), P(8)>>, ret |-> "none"],
  [name |-> "glCopyTexSubImage1D", sig |-> "", decl |-> "JNI_GL_DECLARE1", begin |-> "JNI_GL_BEGIN1", rtype |-> "void", native |-> "glCopyTexSubImage1D",
   params |-> <<"jint", "jint", "jint", "jint", "jint", "jint">>,
   views |-> <<>>,
   args |-> <<P(1), P(2), P(3), P(4), P(5), P(6)>>, ret |-> "none"],
  [name |-> "glCopyTexSubImage2D", sig |-> "", decl |-> "JNI_GL_DECLARE1", begin |-> "JNI_GL_BEGIN1", rtype |-> "void", native |-> "glCopyTexSubImage2D",
   params |-> <<"jint", "jint", "jint", "jint", "jint", "jint", "jint", "jint">>,
   views |-> <<>>,
   args |-> <<P(1), P(2), P(3), P(4), P(5), P(6), P(7), P(8)>>, ret |-> "none"],
  [name |-> "glCullFace", sig |-> "", decl |-> "JNI_GL_DECLARE1", begin |-> "JNI_GL_BEGIN1", rtype |-> "void", native |-> "glCullFace",
   params |-> <<"jint">>,
   views |-> <<>>,
   args |-> <<P(1)>>, ret |-> "none"],
  [name |-> "glDeleteLists", sig |-> "", decl |-> "JNI_GL_DECLARE1", begin |-> "JNI_GL_BEGIN1", rtype |-> "void", native |-> "glDeleteLists",
   params |-> <<"jint", "jint">>,
   views |-> <<>>,
   args |-> <<P(1), P(2)>>, ret |-> "none"],
  [name |-> "glDeleteTextures", sig |-> "", decl |-> "JNI_GL_DECLARE1", begin |-> "JNI_GL_BEGIN1", rtype |-> "void", native |-> "glDeleteTextures",
   params |-> <<"jint", "jintArray">>,
   views |-> <<[t |-> "JuintArray", p |-> 2]>>,
   args |-> <<P(1), V(1)>>, ret |-> "none"],
  [name |-> "glDepthFunc", sig |-> "", decl |-> "JNI_GL_DECLARE1", begin |-> "JNI_GL_BEGIN1", rtype |-> "void", native |-> "glDepthFunc",
   params |-> <<"jint">>,
   views |-> <<>>,
   args |-> <<P(1)>>, ret |-> "none"],
  [name |-> "glDepthMask", sig |-> "", decl |-> "JNI_GL_DECLARE1", begin |-> "JNI_GL_BEGIN1", rtype |-> "void", native |-> "glDepthMask",
   params |-> <<"jbyte">>,
   views |-> <<>>,
   args |-> <<P(1)>>, ret |-> "none"],
  [name |-> "glDepthRange", sig |-> "", decl |-> "JNI_GL_DECLARE1", begin |-> "JNI_GL_BEGIN1", rtype |-> "void", native |-> "glDepthRange",
   params |-> <<"jdouble", "jdouble">>,
   views |-> <<>>,
   args |-> <<P(1), P(2)>>, ret |-> "none"],
  [name |-> "glDisable", sig |-> "", decl |-> "JNI_GL_DECLARE1", begin |-> "JNI_GL_BEGIN1", rtype |-> "void", native |-> "glDisable",
   params |-> <<"jint">>,
   views |-> <<>>,
   args |-> <<P(1)>>, ret |-> "none"],
  [name |-> "glDisableClientState", sig |-> "", decl |-> "JNI_GL_DECLARE1", begin |-> "JNI_GL_BEGIN1", rtype |-> "void", native |-> "glDisableClientState",
   params |-> <<"jint">>,
   views |-> <<>>,
   args |-> <<P(1)>>, ret |-> "none"],
  [name |-> "glDrawArrays", sig |-> "", decl |-> "JNI_GL_DECLARE1", begin |-> "JNI_GL_BEGIN1", rtype |-> "void", native |-> "glDrawArrays",
   params |-> <<"jint", "jint", "jint">>,
   views |-> <<>>,
   args |-> <<P(1), P(2), P(3)>>, ret |-> "none"],
  [name |-> "glDrawBuffer", sig |-> "", decl |-> "JNI_GL_DECLARE1", begin |-> "JNI_GL_BEGIN1", rtype |-> "void", native |-> "glDrawBuffer",
   params |-> <<"jint">>,
   views |-> <<>>,
   args |-> <<P(1)>>, ret |-> "none"],
  [name |-> "glDrawElements", sig |-> "III_3B", decl |-> "JNI_GL_DECLARE1", begin |-> "JNI_GL_BEGIN1", rtype |-> "void", native |-> "glDrawElements",
   params |-> <<"jint", "jint", "jint", "jarray">>,
   views |-> <<[t |-> "JvoidArray", p |-> 4]>>,
   args |-> <<P(1), P(2), P(3), V(1)>>, ret |-> "none"],
  [name |-> "glDrawElements", sig |-> "III_3I", decl |-> "JNI_GL_DECLARE1", begin |-> "JNI_GL_BEGIN1", rtype |-> "void", native |-> "glDrawElements",
   params |-> <<"jint", "jint", "jint", "jarray">>,
   views |-> <<[t |-> "JvoidArray", p |-> 4]>>,
   args |-> <<P(1), P(2), P(3), V(1)>>, ret |-> "none"],
  [name |-> "glDrawElements", sig |-> "III_3S", decl |-> "JNI_GL_DECLARE1", begin |-> "JNI_GL_BEGIN1", rtype |-> "void", native |-> "glDrawElements",
   params |-> <<"jint", "jint", "jint", "jarray">>,
   views |-> <<[t |-> "JvoidArray", p |-> 4]>>,
   args |-> <<P(1), P(2), P(3), V(1)>>, ret |-> "none"],
  [name |-> "glDrawPixels", sig |-> "IIII_3B", decl |-> "JNI_GL_DECLARE1", begin |-> "JNI_GL_BEGIN1", rtype |-> "void", native |-> "glDrawPixels",
   params |-> <<"jint", "jint", "jint", "jint", "jarray">>,
   views |-> <<[t |-> "JvoidArray", p |-> 5]>>,
   args |-> <<P(1), P(2), P(3), P(4), V(1)>>, ret |-> "none"],
  [name |-> "glDrawPixels", sig |-> "IIII_3I", decl |-> "JNI_GL_DECLARE1", begin |-> "JNI_GL_BEGIN1", rtype |-> "void", native |-> "glDrawPixels",
   params |-> <<"jint", "jint", "jint", "jint", "jarray">>,
   views |-> <<[t |-> "JvoidArray", p |-> 5]>>,
   args |-> <<P(1), P(2), P(3), P(4), V(1)>>, ret |-> "none"],
  [name |-> "glDrawPixels", sig |-> "IIII_3S", decl |-> "JNI_GL_DECLARE1", begin |-> "JNI_GL_BEGIN1", rtype |-> "void", native |-> "glDrawPixels",
   params |-> <<"jint", "jint", "jint", "jint", "jarray">>,
   views |-> <<[t |-> "JvoidArray", p |-> 5]>>,
   args |-> <<P(1), P(2), P(3), P(4), V(1)>>, ret |-> "none"],
  [name |-> "glEdgeFlag", sig |-> "", decl |-> "JNI_GL_DECLARE1", begin |-> "JNI_GL_BEGIN1", rtype |-> "void", native |-> "glEdgeFlag",
   params |-> <<"jbyte">>,
   views |-> <<>>,
   args |-> <<P(1)>>, ret |-> "none"],
  [name |-> "glEdgeFlagPointer", sig |-> "", decl |-> "JNI_GL_DECLARE1", begin |-> "JNI_GL_BEGIN1", rtype |-> "void", native |-> "glEdgeFlagPointer",
   params |-> <<"jint", "jobject">>,
   views |-> <<[t |-> "JvoidBuffer", p |-> 2]>>,
   args |-> <<P(1), V(1)>>, ret |-> "none"],
  [name |-> "glEdgeFlagv", sig |-> "", decl |-> "JNI_GL_DECLARE1", begin |-> "JNI_GL_BEGIN1", rtype |-> "void", native |-> "glEdgeFlagv",
   params |-> <<"jbyteArray">>,
   views |-> <<[t |-> "JubyteArray", p |-> 1]>>,
   args |-> <<V(1)>>, ret |-> "none"],
  [name |-> "glEnable", sig |-> "", decl |-> "JNI_GL_DECLARE1", begin |-> "JNI_GL_BEGIN1", rtype |-> "void", native |-> "glEnable",
   params |-> <<"jint">>,
   views |-> <<>>,
   args |-> <<P(1)>>, ret |-> "none"],
  [name |-> "glEnableClientState", sig |-> "", decl |-> "JNI_GL_DECLARE1", begin |-> "JNI_GL_BEGIN1", rtype |-> "void", native |-> "glEnableClientState",
   params |-> <<"jint">>,
   views |-> <<>>,
   args |-> <<P(1)>>, ret |-> "none"],
  [name |-> "glEnd", sig |-> "", decl |-> "JNI_GL_DECLARE0", begin |-> "JNI_GL_BEGIN0", rtype |-> "void", native |-> "glEnd",
   params |-> <<>>,
   views |-> <<>>,
   args |-> <<>>, ret |-> "none"],
  [name |-> "glEndList", sig |-> "", decl |-> "JNI_GL_DECLARE0", begin |-> "JNI_GL_BEGIN0", rtype |-> "void", native |-> "glEndList",
   params |-> <<>>,
   views |-> <<>>,
   args |-> <<>>, ret |-> "none"],
  [name |-> "glEvalCoord1d", sig |-> "", decl |-> "JNI_GL_DECLARE1", begin |-> "JNI_GL_BEGIN1", rtype |-> "void", native |-> "glEvalCoord1d",
   params |-> <<"jdouble">>,
   views |-> <<>>,
   args |-> <<P(1)>>, ret |-> "none"],
  [name |-> "glEvalCoord1dv", sig |-> "", decl |-> "JNI_GL_DECLARE1", begin |-> "JNI_GL_BEGIN1", rtype |-> "void", native |-> "glEvalCoord1dv",
   params |-> <<"jdoubleArray">>,
   views |-> <<[t |-> "JdoubleArray", p |-> 1]>>,
   args |-> <<V(1)>>, ret |-> "none"],
  [name |-> "glEvalCoord1f", sig |-> "", decl |-> "JNI_GL_DECLARE1", begin |-> "JNI_GL_BEGIN1", rtype |-> "void", native |-> "glEvalCoord1f",
   params |-> <<"jfloat">>,
   views |-> <<>>,
   args |-> <<P(1)>>, ret |-> "none"],
  [name |-> "glEvalCoord1fv", sig |-> "", decl |-> "JNI_GL_DECLARE1", begin |-> "JNI_GL_BEGIN1", rtype |-> "void", native |-> "glEvalCoord1fv",
   params |-> <<"jfloatArray">>,
   views |-> <<[t |-> "JfloatArray", p |-> 1]>>,
   args |-> <<V(1)>>, ret |-> "none"],
  [name |-> "glEvalCoord2d", sig |-> "", decl |-> "JNI_GL_DECLARE1", begin |-> "JNI_GL_BEGIN1", rtype |-> "void", native |-> "glEvalCoord2d",
   params |-> <<"jdouble", "jdouble">>,
   views |-> <<>>,
   args |-> <<P(1), P(2)>>, ret |-> "none"],
  [name |-> "glEvalCoord2dv", sig |-> "", decl |-> "JNI_GL_DECLARE1", begin |-> "JNI_GL_BEGIN1", rtype |-> "void", native |-> "glEvalCoord2dv",
   params |-> <<"jdoubleArray">>,
   views |-> <<[t |-> "JdoubleArray", p |-> 1]>>,
   args |-> <<V(1)>>, ret |-> "none"],
  [name |-> "glEvalCoord2f", sig |-> "", decl |-> "JNI_GL_DECLARE1", begin |-> "JNI_GL_BEGIN1", rtype |-> "void", native |-> "glEvalCoord2f",
   params |-> <<"jfloat", "jfloat">>,
   views |-> <<>>,
   args |-> <<P(1), P(2)>>, ret |-> "none"],
  [name |-> "glEvalCoord2fv", sig |-> "", decl |-> "JNI_GL_DECLARE1", begin |-> "JNI_GL_BEGIN1", rtype |-> "void", native |-> "glEvalCoord2fv",
   params |-> <<"jfloatArray">>,
   views |-> <<[t |-> "JfloatArray", p |-> 1]>>,
   args |-> <<V(1)>>, ret |-> "none"],
  [name |-> "glEvalMesh1", sig |-> "", decl |-> "JNI_GL_DECLARE1", begin |-> "JNI_GL_BEGIN1", rtype |-> "void", native |-> "glEvalMesh1",
   params |-> <<"jint", "jint", "jint">>,
   views |-> <<>>,
   args |-> <<P(1), P(2), P(3)>>, ret |-> "none"],
  [name |-> "glEvalMesh2", sig |-> "", decl |-> "JNI_GL_DECLARE1", begin |-> "JNI_GL_BEGIN1", rtype |-> "void", native |-> "glEvalMesh2",
   params |-> <<"jint", "jint", "jint", "jint", "jint">>,
   views |-> <<>>,
   args |-> <<P(1), P(2), P(3), P(4), P(5)>>, ret |-> "none"],
  [name |-> "glEvalPoint1", sig |-> "", decl |-> "JNI_GL_DECLARE1", begin |-> "JNI_GL_BEGIN1", rtype |-> "void", native |-> "glEvalPoint1",
   params |-> <<"jint">>,
   views |-> <<>>,
   args |-> <<P(1)>>, ret |-> "none"],
  [name |-> "glEvalPoint2", sig |-> "", decl |-> "JNI_GL_DECLARE1", begin |-> "JNI_GL_BEGIN1", rtype |-> "void", native |-> "glEvalPoint2",
   params |-> <<"jint", "jint">>,
   views |-> <<>>,
   args |-> <<P(1), P(2)>>, ret |-> "none"],
  [name |-> "glFeedbackBuffer", sig |-> "", decl |-> "JNI_GL_DECLARE1", begin |-> "JNI_GL_BEGIN1", rtype |-> "void", native |-> "glFeedbackBuffer",
   params |-> <<"jint", "jint", "jobject">>,
   views |-> <<[t |-> "JfloatBuffer", p |-> 3]>>,
   args |-> <<P(1), P(2), V(1)>>, ret |-> "none"],
  [name |-> "glFinish", sig |-> "", decl |-> "JNI_GL_DECLARE0", begin |-> "JNI_GL_BEGIN0", rtype |-> "void", native |-> "glFinish",
   params |-> <<>>,
   views |-> <<>>,
   args |-> <<>>, ret |-> "none"],
  [name |-> "glFlush", sig |-> "", decl |-> "JNI_GL_DECLARE0", begin |-> "JNI_GL_BEGIN0", rtype |-> "void", native |-> "glFlush",
   params |-> <<>>,
   views |-> <<>>,
   args |-> <<>>, ret |-> "none"],
  [name |-> "glFogf", sig |-> "", decl |-> "JNI_GL_DECLARE1", begin |-> "JNI_GL_BEGIN1", rtype |-> "void", native |-> "glFogf",
   params |-> <<"jint", "jfloat">>,
   views |-> <<>>,
   args |-> <<P(1), P(2)>>, ret |-> "none"],
  [name |-> "glFogfv", sig |-> "", decl |-> "JNI_GL_DECLARE1", begin |-> "JNI_GL_BEGIN1", rtype |-> "void", native |-> "glFogfv",
   params |-> <<"jint", "jfloatArray">>,
   views |-> <<[t |-> "JfloatArray", p |-> 2]>>,
   args |-> <<P(1), V(1)>>, ret |-> "none"],
  [name |-> "glFogi", sig |-> "", decl |-> "JNI_GL_DECLARE1", begin |-> "JNI_GL_BEGIN1", rtype |-> "void", native |-> "glFogi",
   params |-> <<"jint", "jint">>,
   views |-> <<>>,
   args |-> <<P(1), P(2)>>, ret |-> "none"],
  [name |-> "glFogiv", sig |-> "", decl |-> "JNI_GL_DECLARE1", begin |-> "JNI_GL_BEGIN1", rtype |-> "void", native |-> "glFogiv",
   params |-> <<"jint", "jintArray">>,
   views |-> <<[t |-> "JintArray", p |-> 2]>>,
   args |-> <<P(1), V(1)>>, ret |-> "none"],
  [name |-> "glFrontFace", sig |-> "", decl |-> "JNI_GL_DECLARE1", begin |-> "JNI_GL_BEGIN1", rtype |-> "void", native |-> "glFrontFace",
   params |-> <<"jint">>,
   views |-> <<>>,
   args |-> <<P(1)>>, ret |-> "none"],
  [name |-> "glFrustum", sig |-> "", decl |-> "JNI_GL_DECLARE1", begin |-> "JNI_GL_BEGIN1", rtype |-> "void", native |-> "glFrustum",
   params |-> <<"jdouble", "jdouble", "jdouble", "jdouble", "jdouble", "jdouble">>,
   views |-> <<>>,
   args |-> <<P(1), P(2), P(3), P(4), P(5), P(6)>>, ret |-> "none"],
  [name |-> "glGenLists", sig |-> "", decl |-> "JNI_GL_DECLARE_RETURN1", begin |-> "JNI_GL_BEGIN1", rtype |-> "jint", native |-> "glGenLists",
   params |-> <<"jint">>,
   views |-> <<>>,
   args |-> <<P(1)>>, ret |-> "value"],
  [name |-> "glGenTextures", sig |-> "", decl |-> "JNI_GL_DECLARE1", begin |-> "JNI_GL_BEGIN1", rtype |-> "void", native |-> "glGenTextures",
   params |-> <<"jint", "jintArray">>,
   views |-> <<[t |-> "JuintArray", p |-> 2]>>,
   args |-> <<P(1), V(1)>>, ret |-> "none"],
  [name |-> "glGetBooleanv", sig |-> "", decl |-> "JNI_GL_DECLARE1", begin |-> "JNI_GL_BEGIN1", rtype |-> "void", native |-> "glGetBooleanv",
   params |-> <<"jint", "jbyteArray">>,
   views |-> <<[t |-> "JubyteArray", p |-> 2]>>,
   args |-> <<P(1), V(1)>>, ret |-> "none"],
  [name |-> "glGetClipPlane", sig |-> "", decl |-> "JNI_GL_DECLARE1", begin |-> "JNI_GL_BEGIN1", rtype |-> "void", native |-> "glGetClipPlane",
   params |-> <<"jint", "jdoubleArray">>,
   views |-> <<[t |-> "JdoubleArray", p |-> 2]>>,
   args |-> <<P(1), V(1)>>, ret |-> "none"],
  [name |-> "glGetDoublev", sig |-> "", decl |-> "JNI_GL_DECLARE1", begin |-> "JNI_GL_BEGIN1", rtype |-> "void", native |-> "glGetDoublev",
   params |-> <<"jint", "jdoubleArray">>,
   views |-> <<[t |-> "JdoubleArray", p |-> 2]>>,
   args |-> <<P(1), V(1)>>, ret |-> "none"],
  [name |-> "glGetError", sig |-> "", decl |-> "JNI_GL_DECLARE_RETURN0", begin |-> "JNI_GL_BEGIN0", rtype |-> "jint", native |-> "glGetError",
   params |-> <<>>,
   views |-> <<>>,
   args |-> <<>>, ret |-> "value"],
  [name |-> "glGetFloatv", sig |-> "", decl |-> "JNI_GL_DECLARE1", begin |-> "JNI_GL_BEGIN1", rtype |-> "void", native |-> "glGetFloatv",
   params |-> <<"jint", "jfloatArray">>,
   views |-> <<[t |-> "JfloatArray", p |-> 2]>>,
   args |-> <<P(1), V(1)>>, ret |-> "none"],
  [name |-> "glGetIntegerv", sig |-> "", decl |-> "JNI_GL_DECLARE1", begin |-> "JNI_GL_BEGIN1", rtype |-> "void", native |-> "glGetIntegerv",
   params |-> <<"jint", "jintArray">>,
   views |-> <<[t |-> "JintArray", p |-> 2]>>,
   args |-> <<P(1), V(1)>>, ret |-> "none"],
  [name |-> "glGetLightfv", sig |-> "", decl |-> "JNI_GL_DECLARE1", begin |-> "JNI_GL_BEGIN1", rtype |-> "void", native |-> "glGetLightfv",
   params |-> <<"jint", "jint", "jfloatArray">>,
   views |-> <<[t |-> "JfloatArray", p |-> 3]>>,
   args |-> <<P(1), P(2), V(1)>>, ret |-> "none"],
  [name |-> "glGetLightiv", sig |-> "", decl |-> "JNI_GL_DECLARE1", begin |-> "JNI_GL_BEGIN1", rtype |-> "void", native |-> "glGetLightiv",
   params |-> <<"jint", "jint", "jintArray">>,
   views |-> <<[t |-> "JintArray", p |-> 3]>>,
   args |-> <<P(1), P(2), V(1)>>, ret |-> "none"],
  [name |-> "glGetMapdv", sig |-> "", decl |-> "JNI_GL_DECLARE1", begin |-> "JNI_GL_BEGIN1", rtype |-> "void", native |-> "glGetMapdv",
   params |-> <<"jint", "jint", "jdoubleArray">>,
   views |-> <<[t |-> "JdoubleArray", p |-> 3]>>,
   args |-> <<P(1), P(2), V(1)>>, ret |-> "none"],
  [name |-> "glGetMapfv", sig |-> "", decl |-> "JNI_GL_DECLARE1", begin |-> "JNI_GL_BEGIN1", rtype |-> "void", native |-> "glGetMapfv",
   params |-> <<"jint", "jint", "jfloatArray">>,
   views |-> <<[t |-> "JfloatArray", p |-> 3]>>,
   args |-> <<P(1), P(2), V(1)>>, ret |-> "none"],
  [name |-> "glGetMapiv", sig |-> "", decl |-> "JNI_GL_DECLARE1", begin |-> "JNI_GL_BEGIN1", rtype |-> "void", native |-> "glGetMapiv",
   params |-> <<"jint", "jint", "jintArray">>,
   views |-> <<[t |-> "JintArray", p |-> 3]>>,
   args |-> <<P(1), P(2), V(1)>>, ret |-> "none"],
  [name |-> "glGetMaterialfv", sig |-> "", decl |-> "JNI_GL_DECLARE1", begin |-> "JNI_GL_BEGIN1", rtype |-> "void", native |-> "glGetMaterialfv",
   params |-> <<"jint", "jint", "jfloatArray">>,
   views |-> <<[t |-> "JfloatArray", p |-> 3]>>,
   args |-> <<P(1), P(2), V(1)>>, ret |-> "none"],
  [name |-> "glGetMaterialiv", sig |-> "", decl |-> "JNI_GL_DECLARE1", begin |-> "JNI_GL_BEGIN1", rtype |-> "void", native |-> "glGetMaterialiv",
   params |-> <<"jint", "jint", "jintArray">>,
   views |-> <<[t |-> "JintArray", p |-> 3]>>,
   args |-> <<P(1), P(2), V(1)>>, ret |-> "none"],
  [name |-> "glGetPixelMapfv", sig |-> "", decl |-> "JNI_GL_DECLARE1", begin |-> "JNI_GL_BEGIN1", rtype |-> "void", native |-> "glGetPixelMapfv",
   params |-> <<"jint", "jfloatArray">>,
   views |-> <<[t |-> "JfloatArray", p |-> 2]>>,
   args |-> <<P(1), V(1)>>, ret |-> "none"],
  [name |-> "glGetPixelMapuiv", sig |-> "", decl |-> "JNI_GL_DECLARE1", begin |-> "JNI_GL_BEGIN1", rtype |-> "void", native |-> "glGetPixelMapuiv",
   params |-> <<"jint", "jintArray">>,
   views |-> <<[t |-> "JuintArray", p |-> 2]>>,
   args |-> <<P(1), V(1)>>, ret |-> "none"],
  [name |-> "glGetPixelMapusv", sig |-> "", decl |-> "JNI_GL_DECLARE1", begin |-> "JNI_GL_BEGIN1", rtype |-> "void", native |-> "glGetPixelMapusv",
   params |-> <<"jint", "jshortArray">>,
   views |-> <<[t |-> "JushortArray", p |-> 2]>>,
   args |-> <<P(1), V(1)>>, ret |-> "none"],
  [name |-> "glGetPolygonStipple", sig |-> "", decl |-> "JNI_GL_DECLARE1", begin |-> "JNI_GL_BEGIN1", rtype |-> "void", native |-> "glGetPolygonStipple",
   params |-> <<"jbyteArray">>,
   views |-> <<[t |-> "JubyteArray", p |-> 1]>>,
   args |-> <<V(1)>>, ret |-> "none"],
  [name |-> "glGetString", sig |-> "", decl |-> "JNI_GL_DECLARE_RETURN1", begin |-> "JNI_GL_BEGIN1", rtype |-> "jstring", native |-> "glGetString",
   params |-> <<"int">>,
   views |-> <<>>,
   args |-> <<P(1)>>, ret |-> "NewStringUTF"],
  [name |-> "glGetTexEnvfv", sig |-> "", decl |-> "JNI_GL_DECLARE1", begin |-> "JNI_GL_BEGIN1", rtype |-> "void", native |-> "glGetTexEnvfv",
   params |-> <<"jint", "jint", "jfloatArray">>,
   views |-> <<[t |-> "JfloatArray", p |-> 3]>>,
   args |-> <<P(1), P(2), V(1)>>, ret |-> "none"],
  [name |-> "glGetTexEnviv", sig |-> "", decl |-> "JNI_GL_DECLARE1", begin |-> "JNI_GL_BEGIN1", rtype |-> "void", native |-> "glGetTexEnviv",
   params |-> <<"jint", "jint", "jintArray">>,
   views |-> <<[t |-> "JintArray", p |-> 3]>>,
   args |-> <<P(1), P(2), V(1)>>, ret |-> "none"],
  [name |-> "glGetTexGendv", sig |-> "", decl |-> "JNI_GL_DECLARE1", begin |-> "JNI_GL_BEGIN1", rtype |-> "void", native |-> "glGetTexGendv",
   params |-> <<"jint", "jint", "jdoubleArray">>,
   views |-> <<[t |-> "JdoubleArray", p |-> 3]>>,
   args |-> <<P(1), P(2), V(1)>>, ret |-> "none"],
  [name |-> "glGetTexGenfv", sig |-> "", decl |-> "JNI_GL_DECLARE1", begin |-> "JNI_GL_BEGIN1", rtype |-> "void", native |-> "glGetTexGenfv",
   params |-> <<"jint", "jint", "jfloatArray">>,
   views |-> <<[t |-> "JfloatArray", p |-> 3]>>,
   args |-> <<P(1), P(2), V(1)>>, ret |-> "none"],
  [name |-> "glGetTexGeniv", sig |-> "", decl |-> "JNI_GL_DECLARE1", begin |-> "JNI_GL_BEGIN1", rtype |-> "void", native |-> "glGetTexGeniv",
   params |-> <<"jint", "jint", "jintArray">>,
   views |-> <<[t |-> "JintArray", p |-> 3]>>,
   args |-> <<P(1), P(2), V(1)>>, ret |-> "none"],
  [name |-> "glGetTexImage", sig |-> "IIII_3B", decl |-> "JNI_GL_DECLARE1", begin |-> "JNI_GL_BEGIN1", rtype |-> "void", native |-> "glGetTexImage",
   params |-> <<"jint", "jint", "jint", "jint", "jarray">>,
   views |-> <<[t |-> "JvoidArray", p |-> 5]>>,
   args |-> <<P(1), P(2), P(3), P(4), V(1)>>, ret |-> "none"],
  [name |-> "glGetTexImage", sig |-> "IIII_3I", decl |-> "JNI_GL_DECLARE1", begin |-> "JNI_GL_BEGIN1", rtype |-> "void", native |-> "glGetTexImage",
   params |-> <<"jint", "jint", "jint", "jint", "jarray">>,
   views |-> <<[t |-> "JvoidArray", p |-> 5]>>,
   args |-> <<P(1), P(2), P(3), P(4), V(1)>>, ret |-> "none"],
  [name |-> "glGetTexImage", sig |-> "IIII_3S", decl |-> "JNI_GL_DECLARE1", begin |-> "JNI_GL_BEGIN1", rtype |-> "void", native |-> "glGetTexImage",
   params |-> <<"jint", "jint", "jint", "jint", "jarray">>,
   views |-> <<[t |-> "JvoidArray", p |-> 5]>>,
   args |-> <<P(1), P(2), P(3), P(4), V(1)>>, ret |-> "none"],
  [name |-> "glGetTexLevelParameterfv", sig |-> "", decl |-> "JNI_GL_DECLARE1", begin |-> "JNI_GL_BEGIN1", rtype |-> "void", native |-> "glGetTexLevelParameterfv",
   params |-> <<"jint", "jint", "jint", "jfloatArray">>,
   views |-> <<[t |-> "JfloatArray", p |-> 4]>>,
   args |-> <<P(1), P(2), P(3), V(1)>>, ret |-> "none"],
  [name |-> "glGetTexLevelParameteriv", sig |-> "", decl |-> "JNI_GL_DECLARE1", begin |-> "JNI_GL_BEGIN1", rtype |-> "void", native |-> "glGetTexLevelParameteriv",
   params |-> <<"jint", "jint", "jint", "jintArray">>,
   views |-> <<[t |-> "JintArray", p |-> 4]>>,
   args |-> <<P(1), P(2), P(3), V(1)>>, ret |-> "none"],
  [name |-> "glGetTexParameterfv", sig |-> "", decl |-> "JNI_GL_DECLARE1", begin |-> "JNI_GL_BEGIN1", rtype |-> "void", native |-> "glGetTexParameterfv",
   params |-> <<"jint", "jint", "jfloatArray">>,
   views |-> <<[t |-> "JfloatArray", p |-> 3]>>,
   args |-> <<P(1), P(2), V(1)>>, ret |-> "none"],
  [name |-> "glGetTexParameteriv", sig |-> "", decl |-> "JNI_GL_DECLARE1", begin |-> "JNI_GL_BEGIN1", rtype |-> "void", native |-> "glGetTexParameteriv",
   params |-> <<"jint", "jint", "jintArray">>,
   views |-> <<[t |-> "JintArray", p |-> 3]>>,
   args |-> <<P(1), P(2), V(1)>>, ret |-> "none"],
  [name |-> "glHint", sig |-> "", decl |-> "JNI_GL_DECLARE1", begin |-> "JNI_GL_BEGIN1", rtype |-> "void", native |-> "glHint",
   params |-> <<"jint", "jint">>,
   views |-> <<>>,
   args |-> <<P(1), P(2)>>, ret |-> "none"],
  [name |-> "glIndexMask", sig |-> "", decl |-> "JNI_GL_DECLARE1", begin |-> "JNI_GL_BEGIN1", rtype |-> "void", native |-> "glIndexMask",
   params |-> <<"jint">>,
   views |-> <<>>,
   args |-> <<P(1)>>, ret |-> "none"],
  [name |-> "glIndexPointer", sig |-> "", decl |-> "JNI_GL_DECLARE1", begin |-> "JNI_GL_BEGIN1", rtype |-> "void", native |-> "glIndexPointer",
   params |-> <<"jint", "jint", "jobject">>,
   views |-> <<[t |-> "JvoidBuffer", p |-> 3]>>,
   args |-> <<P(1), P(2), V(1)>>, ret |-> "none"],
  [name |-> "glIndexd", sig |-> "", decl |-> "JNI_GL_DECLARE1", begin |-> "JNI_GL_BEGIN1", rtype |-> "void", native |-> "glIndexd",
   params |-> <<"jdouble">>,
   views |-> <<>>,
   args |-> <<P(1)>>, ret |-> "none"],
  [name |-> "glIndexdv", sig |-> "", decl |-> "JNI_GL_DECLARE1", begin |-> "JNI_GL_BEGIN1", rtype |-> "void", native |-> "glIndexdv",
   params |-> <<"jdoubleArray">>,
   views |-> <<[t |-> "JdoubleArray", p |-> 1]>>,
   args |-> <<V(1)>>, ret |-> "none"],
  [name |-> "glIndexf", sig |-> "", decl |-> "JNI_GL_DECLARE1", begin |-> "JNI_GL_BEGIN1", rtype |-> "void", native |-> "glIndexf",
   params |-> <<"jfloat">>,
   views |-> <<>>,
   args |-> <<P(1)>>, ret |-> "none"],
  [name |-> "glIndexfv", sig |-> "", decl |-> "JNI_GL_DECLARE1", begin |-> "JNI_GL_BEGIN1", rtype |-> "void", native |-> "glIndexfv",
   params |-> <<"jfloatArray">>,
   views |-> <<[t |-> "JfloatArray", p |-> 1]>>,
   args |-> <<V(1)>>, ret |-> "none"],
  [name |-> "glIndexi", sig |-> "", decl |-> "JNI_GL_DECLARE1", begin |-> "JNI_GL_BEGIN1", rtype |-> "void", native |-> "glIndexi",
   params |-> <<"jint">>,
   views |-> <<>>,
   args |-> <<P(1)>>, ret |-> "none"],
  [name |-> "glIndexiv", sig |-> "", decl |-> "JNI_GL_DECLARE1", begin |-> "JNI_GL_BEGIN1", rtype |-> "void", native |-> "glIndexiv",
   params |-> <<"jintArray">>,
   views |-> <<[t |-> "JintArray", p |-> 1]>>,
   args |-> <<V(1)>>, ret |-> "none"],
  [name |-> "glIndexs", sig |-> "", decl |-> "JNI_GL_DECLARE1", begin |-> "JNI_GL_BEGIN1", rtype |-> "void", native |-> "glIndexs",
   params |-> <<"jshort">>,
   views |-> <<>>,
   args |-> <<P(1)>>, ret |-> "none"],
  [name |-> "glIndexsv", sig |-> "", decl |-> "JNI_GL_DECLARE1", begin |-> "JNI_GL_BEGIN1", rtype |-> "void", native |-> "glIndexsv",
   params |-> <<"jshortArray">>,
   views |-> <<[t |-> "JshortArray", p |-> 1]>>,
   args |-> <<V(1)>>, ret |-> "none"],
  [name |-> "glIndexub", sig |-> "", decl |-> "JNI_GL_DECLARE1", begin |-> "JNI_GL_BEGIN1", rtype |-> "void", native |-> "glIndexub",
   params |-> <<"jbyte">>,
   views |-> <<>>,
   args |-> <<P(1)>>, ret |-> "none"],
  [name |-> "glIndexubv", sig |-> "", decl |-> "JNI_GL_DECLARE1", begin |-> "JNI_GL_BEGIN1", rtype |-> "void", native |-> "glIndexubv",
   params |-> <<"jbyteArray">>,
   views |-> <<[t |-> "JubyteArray", p |-> 1]>>,
   args |-> <<V(1)>>, ret |-> "none"],
  [name |-> "glInitNames", sig |-> "", decl |-> "JNI_GL_DECLARE0", begin |-> "JNI_GL_BEGIN0", rtype |-> "void", native |-> "glInitNames",
   params |-> <<>>,
   views |-> <<>>,
   args |-> <<>>, ret |-> "none"],
  [name |-> "glInterleavedArrays", sig |-> "", decl |-> "JNI_GL_DECLARE1", begin |-> "JNI_GL_BEGIN1", rtype |-> "void", native |-> "glInterleavedArrays",
   params |-> <<"jint", "jint", "jobject">>,
   views |-> <<[t |-> "JvoidBuffer", p |-> 3]>>,
   args |-> <<P(1), P(2), V(1)>>, ret |-> "none"],
  [name |-> "glIsEnabled", sig |-> "", decl |-> "JNI_GL_DECLARE_RETURN1", begin |-> "JNI_GL_BEGIN1", rtype |-> "jboolean", native |-> "glIsEnabled",
   params |-> <<"jint">>,
   views |-> <<>>,
   args |-> <<P(1)>>, ret |-> "eqGL_TRUE"],
  [name |-> "glIsList", sig |-> "", decl |-> "JNI_GL_DECLARE_RETURN1", begin |-> "JNI_GL_BEGIN1", rtype |-> "jboolean", native |-> "glIsList",
   params |-> <<"jint">>,
   views |-> <<>>,
   args |-> <<P(1)>>, ret |-> "eqGL_TRUE"],
  [name |-> "glIsTexture", sig |-> "", decl |-> "JNI_GL_DECLARE_RETURN1", begin |-> "JNI_GL_BEGIN1", rtype |-> "jboolean", native |-> "glIsTexture",
   params |-> <<"jint">>,
   views |-> <<>>,
   args |-> <<P(1)>>, ret |-> "eqGL_TRUE"],
  [name |-> "glLightModelf", sig |-> "", decl |-> "JNI_GL_DECLARE1", begin |-> "JNI_GL_BEGIN1", rtype |-> "void", native |-> "glLightModelf",
   params |-> <<"jint", "jfloat">>,
   views |-> <<>>,
   args |-> <<P(1), P(2)>>, ret |-> "none"],
  [name |-> "glLightModelfv", sig |-> "", decl |-> "JNI_GL_DECLARE1", begin |-> "JNI_GL_BEGIN1", rtype |-> "void", native |-> "glLightModelfv",
   params |-> <<"jint", "jfloatArray">>,
   views |-> <<[t |-> "JfloatArray", p |-> 2]>>,
   args |-> <<P(1), V(1)>>, ret |-> "none"],
  [name |-> "glLightModeli", sig |-> "", decl |-> "JNI_GL_DECLARE1", begin |-> "JNI_GL_BEGIN1", rtype |-> "void", native |-> "glLightModeli",
   params |-> <<"jint", "jint">>,
   views |-> <<>>,
   args |-> <<P(1), P(2)>>, ret |-> "none"],
  [name |-> "glLightModeliv", sig |-> "", decl |-> "JNI_GL_DECLARE1", begin |-> "JNI_GL_BEGIN1", rtype |-> "void", native |-> "glLightModeliv",
   params |-> <<"jint", "jintArray">>,
   views |-> <<[t |-> "JintArray", p |-> 2]>>,
   args |-> <<P(1), V(1)>>, ret |-> "none"],
  [name |-> "glLightf", sig |-> "", decl |-> "JNI_GL_DECLARE1", begin |-> "JNI_GL_BEGIN1", rtype |-> "void", native |-> "glLightf",
   params |-> <<"jint", "jint", "jfloat">>,
   views |-> <<>>,
   args |-> <<P(1), P(2), P(3)>>, ret |-> "none"],
  [name |-> "glLightfv", sig |-> "", decl |-> "JNI_GL_DECLARE1", begin |-> "JNI_GL_BEGIN1", rtype |-> "void", native |-> "glLightfv",
   params |-> <<"jint", "jint", "jfloatArray">>,
   views |-> <<[t |-> "JfloatArray", p |-> 3]>>,
   args |-> <<P(1), P(2), V(1)>>, ret |-> "none"],
  [name |-> "glLighti", sig |-> "", decl |-> "JNI_GL_DECLARE1", begin |-> "JNI_GL_BEGIN1", rtype |-> "void", native |-> "glLighti",
   params |-> <<"jint", "jint", "jint">>,
   views |-> <<>>,
   args |-> <<P(1), P(2), P(3)>>, ret |-> "none"],
  [name |-> "glLightiv", sig |-> "", decl |-> "JNI_GL_DECLARE1", begin |-> "JNI_GL_BEGIN1", rtype |-> "void", native |-> "glLightiv",
   params |-> <<"jint", "jint", "jintArray">>,
   views |-> <<[t |-> "JintArray", p |-> 3]>>,
   args |-> <<P(1), P(2), V(1)>>, ret |-> "none"],
  [name |-> "glLineStipple", sig |-> "", decl |-> "JNI_GL_DECLARE1", begin |-> "JNI_GL_BEGIN1", rtype |-> "void", native |-> "glLineStipple",
   params |-> <<"jint", "jshort">>,
   views |-> <<>>,
   args |-> <<P(1), P(2)>>, ret |-> "none"],
  [name |-> "glLineWidth", sig |-> "", decl |-> "JNI_GL_DECLARE1", begin |-> "JNI_GL_BEGIN1", rtype |-> "void", native |-> "glLineWidth",
   params |-> <<"jfloat">>,
   views |-> <<>>,
   args |-> <<P(1)>>, ret |-> "none"],
  [name |-> "glListBase", sig |-> "", decl |-> "JNI_GL_DECLARE1", begin |-> "JNI_GL_BEGIN1", rtype |-> "void", native |-> "glListBase",
   params |-> <<"jint">>,
   views |-> <<>>,
   args |-> <<P(1)>>, ret |-> "none"],
  [name |-> "glLoadIdentity", sig |-> "", decl |-> "JNI_GL_DECLARE0", begin |-> "JNI_GL_BEGIN0", rtype |-> "void", native |-> "glLoadIdentity",
   params |-> <<>>,
   views |-> <<>>,
   args |-> <<>>, ret |-> "none"],
  [name |-> "glLoadMatrixd", sig |-> "", decl |-> "JNI_GL_DECLARE1", begin |-> "JNI_GL_BEGIN1", rtype |-> "void", native |-> "glLoadMatrixd",
   params |-> <<"jdoubleArray">>,
   views |-> <<[t |-> "JdoubleArray", p |-> 1]>>,
   args |-> <<V(1)>>, ret |-> "none"],
  [name |-> "glLoadMatrixf", sig |-> "", decl |-> "JNI_GL_DECLARE1", begin |-> "JNI_GL_BEGIN1", rtype |-> "void", native |-> "glLoadMatrixf",
   params |-> <<"jfloatArray">>,
   views |-> <<[t |-> "JfloatArray", p |-> 1]>>,
   args |-> <<V(1)>>, ret |-> "none"],
  [name |-> "glLoadName", sig |-> "", decl |-> "JNI_GL_DECLARE1", begin |-> "JNI_GL_BEGIN1", rtype |-> "void", native |-> "glLoadName",
   params |-> <<"jint">>,
   views |-> <<>>,
   args |-> <<P(1)>>, ret |-> "none"],
  [name |-> "glLogicOp", sig |-> "", decl |-> "JNI_GL_DECLARE1", begin |-> "JNI_GL_BEGIN1", rtype |-> "void", native |-> "glLogicOp",
   params |-> <<"jint">>,
   views |-> <<>>,
   args |-> <<P(1)>>, ret |-> "none"],
  [name |-> "glMap1d", sig |-> "", decl |-> "JNI_GL_DECLARE1", begin |-> "JNI_GL_BEGIN1", rtype |-> "void", native |-> "glMap1d",
   params |-> <<"jint", "jdouble", "jdouble", "jint", "jint", "jdoubleArray">>,
   views |-> <<[t |-> "JdoubleArray", p |-> 6]>>,
   args |-> <<P(1), P(2), P(3), P(4), P(5), V(1)>>, ret |-> "none"],
  [name |-> "glMap1f", sig |-> "", decl |-> "JNI_GL_DECLARE1", begin |-> "JNI_GL_BEGIN1", rtype |-> "void", native |-> "glMap1f",
   params |-> <<"jint", "jfloat", "jfloat", "jint", "jint", "jfloatArray">>,
   views |-> <<[t |-> "JfloatArray", p |-> 6]>>,
   args |-> <<P(1), P(2), P(3), P(4), P(5), V(1)>>, ret |-> "none"],
  [name |-> "glMap2d", sig |-> "", decl |-> "JNI_GL_DECLARE1", begin |-> "JNI_GL_BEGIN1", rtype |-> "void", native |-> "glMap2d",
   params |-> <<"jint", "jdouble", "jdouble", "jint", "jint", "jdouble", "jdouble", "jint", "jint", "jdoubleArray">>,
   views |-> <<[t |-> "JdoubleArray", p |-> 10]>>,
   args |-> <<P(1), P(2), P(3), P(4), P(5), P(6), P(7), P(8), P(9), V(1)>>, ret |-> "none"],
  [name |-> "glMap2f", sig |-> "", decl |-> "JNI_GL_DECLARE1", begin |-> "JNI_GL_BEGIN1", rtype |-> "void", native |-> "glMap2f",
   params |-> <<"jint", "jfloat", "jfloat", "jint", "jint", "jfloat", "jfloat", "jint", "jint", "jfloatArray">>,
   views |-> <<[t |-> "JfloatArray", p |-> 10]>>,
   args |-> <<P(1), P(2), P(3), P(4), P(5), P(6), P(7), P(8), P(9), V(1)>>, ret |-> "none"],
  [name |-> "glMapGrid1d", sig |-> "", decl |-> "JNI_GL_DECLARE1", begin |-> "JNI_GL_BEGIN1", rtype |-> "void", native |-> "glMapGrid1d",
   params |-> <<"jint", "jdouble", "jdouble">>,
   views |-> <<>>,
   args |-> <<P(1), P(2), P(3)>>, ret |-> "none"],
  [name |-> "glMapGrid1f", sig |-> "", decl |-> "JNI_GL_DECLARE1", begin |-> "JNI_GL_BEGIN1", rtype |-> "void", native |-> "glMapGrid1f",
   params |-> <<"jint", "jfloat", "jfloat">>,
   views |-> <<>>,
   args |-> <<P(1), P(2), P(3)>>, ret |-> "none"],
  [name |-> "glMapGrid2d", sig |-> "", decl |-> "JNI_GL_DECLARE1", begin |-> "JNI_GL_BEGIN1", rtype |-> "void", native |-> "glMapGrid2d",
   params |-> <<"jint", "jdouble", "jdouble", "jint", "jdouble", "jdouble">>,
   views |-> <<>>,
   args |-> <<P(1), P(2), P(3), P(4), P(5), P(6)>>, ret |-> "none"],
  [name |-> "glMapGrid2f", sig |-> "", decl |-> "JNI_GL_DECLARE1", begin |-> "JNI_GL_BEGIN1", rtype |-> "void", native |-> "glMapGrid2f",
   params |-> <<"jint", "jfloat", "jfloat", "jint", "jfloat", "jfloat">>,
   views |-> <<>>,
   args |-> <<P(1), P(2), P(3), P(4), P(5), P(6)>>, ret |-> "none"],
  [name |-> "glMaterialf", sig |-> "", decl |-> "JNI_GL_DECLARE1", begin |-> "JNI_GL_BEGIN1", rtype |-> "void", native |-> "glMaterialf",
   params |-> <<"jint", "jint", "jfloat">>,
   views |-> <<>>,
   args |-> <<P(1), P(2), P(3)>>, ret |-> "none"],
  [name |-> "glMaterialfv", sig |-> "", decl |-> "JNI_GL_DECLARE1", begin |-> "JNI_GL_BEGIN1", rtype |-> "void", native |-> "glMaterialfv",
   params |-> <<"jint", "jint", "jfloatArray">>,
   views |-> <<[t |-> "JfloatArray", p |-> 3]>>,
   args |-> <<P(1), P(2), V(1)>>, ret |-> "none"],
  [name |-> "glMateriali", sig |-> "", decl |-> "JNI_GL_DECLARE1", begin |-> "JNI_GL_BEGIN1", rtype |-> "void", native |-> "glMateriali",
   params |-> <<"jint", "jint", "jint">>,
   views |-> <<>>,
   args |-> <<P(1), P(2), P(3)>>, ret |-> "none"],
  [name |-> "glMaterialiv", sig |-> "", decl |-> "JNI_GL_DECLARE1", begin |-> "JNI_GL_BEGIN1", rtype |-> "void", native |-> "glMaterialiv",
   params |-> <<"jint", "jint", "jintArray">>,
   views |-> <<[t |-> "JintArray", p |-> 3]>>,
   args |-> <<P(1), P(2), V(1)>>, ret |-> "none"],
  [name |-> "glMatrixMode", sig |-> "", decl |-> "JNI_GL_DECLARE1", begin |-> "JNI_GL_BEGIN1", rtype |-> "void", native |-> "glMatrixMode",
   params |-> <<"jint">>,
   views |-> <<>>,
   args |-> <<P(1)>>, ret |-> "none"],
  [name |-> "glMultMatrixd", sig |-> "", decl |-> "JNI_GL_DECLARE1", begin |-> "JNI_GL_BEGIN1", rtype |-> "void", native |-> "glMultMatrixd",
   params |-> <<"jdoubleArray">>,
   views |-> <<[t |-> "JdoubleArray", p |-> 1]>>,
   args |-> <<V(1)>>, ret |-> "none"],
  [name |-> "glMultMatrixf", sig |-> "", decl |-> "JNI_GL_DECLARE1", begin |-> "JNI_GL_BEGIN1", rtype |-> "void", native |-> "glMultMatrixf",
   params |-> <<"jfloatArray">>,
   views |-> <<[t |-> "JfloatArray", p |-> 1]>>,
   args |-> <<V(1)>>, ret |-> "none"],
  [name |-> "glNewList", sig |-> "", decl |-> "JNI_GL_DECLARE1", begin |-> "JNI_GL_BEGIN1", rtype |-> "void", native |-> "glNewList",
   params |-> <<"jint", "jint">>,
   views |-> <<>>,
   args |-> <<P(1), P(2)>>, ret |-> "none"],
  [name |-> "glNormal3b", sig |-> "", decl |-> "JNI_GL_DECLARE1", begin |-> "JNI_GL_BEGIN1", rtype |-> "void", native |-> "glNormal3b",
   params |-> <<"jbyte", "jbyte", "jbyte">>,
   views |-> <<>>,
   args |-> <<P(1), P(2), P(3)>>, ret |-> "none"],
  [name |-> "glNormal3bv", sig |-> "", decl |-> "JNI_GL_DECLARE1", begin |-> "JNI_GL_BEGIN1", rtype |-> "void", native |-> "glNormal3bv",
   params |-> <<"jbyteArray">>,
   views |-> <<[t |-> "JbyteArray", p |-> 1]>>,
   args |-> <<V(1)>>, ret |-> "none"],
  [name |-> "glNormal3d", sig |-> "", decl |-> "JNI_GL_DECLARE1", begin |-> "JNI_GL_BEGIN1", rtype |-> "void", native |-> "glNormal3d",
   params |-> <<"jdouble", "jdouble", "jdouble">>,
   views |-> <<>>,
   args |-> <<P(1), P(2), P(3)>>, ret |-> "none"],
  [name |-> "glNormal3dv", sig |-> "", decl |-> "JNI_GL_DECLARE1", begin |-> "JNI_GL_BEGIN1", rtype |-> "void", native |-> "glNormal3dv",
   params |-> <<"jdoubleArray">>,
   views |-> <<[t |-> "JdoubleArray", p |-> 1]>>,
   args |-> <<V(1)>>, ret |-> "none"],
  [name |-> "glNormal3f", sig |-> "", decl |-> "JNI_GL_DECLARE1", begin |-> "JNI_GL_BEGIN1", rtype |-> "void", native |-> "glNormal3f",
   params |-> <<"jfloat", "jfloat", "jfloat">>,
   views |-> <<>>,
   args |-> <<P(1), P(2), P(3)>>, ret |-> "none"],
  [name |-> "glNormal3fv", sig |-> "", decl |-> "JNI_GL_DECLARE1", begin |-> "JNI_GL_BEGIN1", rtype |-> "void", native |-> "glNormal3fv",
   params |-> <<"jfloatArray">>,
   views |-> <<[t |-> "JfloatArray", p |-> 1]>>,
   args |-> <<V(1)>>, ret |-> "none"],
  [name |-> "glNormal3i", sig |-> "", decl |-> "JNI_GL_DECLARE1", begin |-> "JNI_GL_BEGIN1", rtype |-> "void", native |-> "glNormal3i",
   params |-> <<"jint", "jint", "jint">>,
   views |-> <<>>,
   args |-> <<P(1), P(2), P(3)>>, ret |-> "none"],
  [name |-> "glNormal3iv", sig |-> "", decl |-> "JNI_GL_DECLARE1", begin |-> "JNI_GL_BEGIN1", rtype |-> "void", native |-> "glNormal3iv",
   params |-> <<"jintArray">>,
   views |-> <<[t |-> "JintArray", p |-> 1]>>,
   args |-> <<V(1)>>, ret |-> "none"],
  [name |-> "glNormal3s", sig |-> "", decl |-> "JNI_GL_DECLARE1", begin |-> "JNI_GL_BEGIN1", rtype |-> "void", native |-> "glNormal3s",
   params |-> <<"jshort", "jshort", "jshort">>,
   views |-> <<>>,
   args |-> <<P(1), P(2), P(3)>>, ret |-> "none"],
  [name |-> "glNormal3sv", sig |-> "", decl |-> "JNI_GL_DECLARE1", begin |-> "JNI_GL_BEGIN1", rtype |-> "void", native |-> "glNormal3sv",
   params |-> <<"jshortArray">>,
   views |-> <<[t |-> "JshortArray", p |-> 1]>>,
   args |-> <<V(1)>>, ret |-> "none"],
  [name |-> "glNormalPointer", sig |-> "", decl |-> "JNI_GL_DECLARE1", begin |-> "JNI_GL_BEGIN1", rtype |-> "void", native |-> "glNormalPointer",
   params |-> <<"jint", "jint", "jobject">>,
   views |-> <<[t |-> "JvoidBuffer", p |-> 3]>>,
   args |-> <<P(1), P(2), V(1)>>, ret |-> "none"],
  [name |-> "glOrtho", sig |-> "", decl |-> "JNI_GL_DECLARE1", begin |-> "JNI_GL_BEGIN1", rtype |-> "void", native |-> "glOrtho",
   params |-> <<"jdouble", "jdouble", "jdouble", "jdouble", "jdouble", "jdouble">>,
   views |-> <<>>,
   args |-> <<P(1), P(2), P(3), P(4), P(5), P(6)>>, ret |-> "none"],
  [name |-> "glPassThrough", sig |-> "", decl |-> "JNI_GL_DECLARE1", begin |-> "JNI_GL_BEGIN1", rtype |-> "void", native |-> "glPassThrough",
   params |-> <<"jfloat">>,
   views |-> <<>>,
   args |-> <<P(1)>>, ret |-> "none"],
  [name |-> "glPixelMapfv", sig |-> "", decl |-> "JNI_GL_DECLARE1", begin |-> "JNI_GL_BEGIN1", rtype |-> "void", native |-> "glPixelMapfv",
   params |-> <<"jint", "jint", "jfloatArray">>,
   views |-> <<[t |-> "JfloatArray", p |-> 3]>>,
   args |-> <<P(1), P(2), V(1)>>, ret |-> "none"],
  [name |-> "glPixelMapuiv", sig |-> "", decl |-> "JNI_GL_DECLARE1", begin |-> "JNI_GL_BEGIN1", rtype |-> "void", native |-> "glPixelMapuiv",
   params |-> <<"jint", "jint", "jintArray">>,
   views |-> <<[t |-> "JuintArray", p |-> 3]>>,
   args |-> <<P(1), P(2), V(1)>>, ret |-> "none"],
  [name |-> "glPixelMapusv", sig |-> "", decl |-> "JNI_GL_DECLARE1", begin |-> "JNI_GL_BEGIN1", rtype |-> "void", native |-> "glPixelMapusv",
   params |-> <<"jint", "jint", "jshortArray">>,
   views |-> <<[t |-> "JushortArray", p |-> 3]>>,
   args |-> <<P(1), P(2), V(1)>>, ret |-> "none"],
  [name |-> "glPixelStoref", sig |-> "", decl |-> "JNI_GL_DECLARE1", begin |-> "JNI_GL_BEGIN1", rtype |-> "void", native |-> "glPixelStoref",
   params |-> <<"jint", "jfloat">>,
   views |-> <<>>,
   args |-> <<P(1), P(2)>>, ret |-> "none"],
  [name |-> "glPixelStorei", sig |-> "", decl |-> "JNI_GL_DECLARE1", begin |-> "JNI_GL_BEGIN1", rtype |-> "void", native |-> "glPixelStorei",
   params |-> <<"jint", "jint">>,
   views |-> <<>>,
   args |-> <<P(1), P(2)>>, ret |-> "none"],
  [name |-> "glPixelTransferf", sig |-> "", decl |-> "JNI_GL_DECLARE1", begin |-> "JNI_GL_BEGIN1", rtype |-> "void", native |-> "glPixelTransferf",
   params |-> <<"jint", "jfloat">>,
   views |-> <<>>,
   args |-> <<P(1), P(2)>>, ret |-> "none"],
  [name |-> "glPixelTransferi", sig |-> "", decl |-> "JNI_GL_DECLARE1", begin |-> "JNI_GL_BEGIN1", rtype |-> "void", native |-> "glPixelTransferi",
   params |-> <<"jint", "jint">>,
   views |-> <<>>,
   args |-> <<P(1), P(2)>>, ret |-> "none"],
  [name |-> "glPixelZoom", sig |-> "", decl |-> "JNI_GL_DECLARE1", begin |-> "JNI_GL_BEGIN1", rtype |-> "void", native |-> "glPixelZoom",
   params |-> <<"jfloat", "jfloat">>,
   views |-> <<>>,
   args |-> <<P(1), P(2)>>, ret |-> "none"],
  [name |-> "glPointSize", sig |-> "", decl |-> "JNI_GL_DECLARE1", begin |-> "JNI_GL_BEGIN1", rtype |-> "void", native |-> "glPointSize",
   params |-> <<"jfloat">>,
   views |-> <<>>,
   args |-> <<P(1)>>, ret |-> "none"],
  [name |-> "glPolygonMode", sig |-> "", decl |-> "JNI_GL_DECLARE1", begin |-> "JNI_GL_BEGIN1", rtype |-> "void", native |-> "glPolygonMode",
   params |-> <<"jint", "jint">>,
   views |-> <<>>,
   args |-> <<P(1), P(2)>>, ret |-> "none"],
  [name |-> "glPolygonOffset", sig |-> "", decl |-> "JNI_GL_DECLARE1", begin |-> "JNI_GL_BEGIN1", rtype |-> "void", native |-> "glPolygonOffset",
   params |-> <<"jfloat", "jfloat">>,
   views |-> <<>>,
   args |-> <<P(1), P(2)>>, ret |-> "none"],
  [name |-> "glPolygonStipple", sig |-> "", decl |-> "JNI_GL_DECLARE1", begin |-> "JNI_GL_BEGIN1", rtype |-> "void", native |-> "glPolygonStipple",
   params |-> <<"jbyteArray">>,
   views |-> <<[t |-> "JubyteArray", p |-> 1]>>,
   args |-> <<V(1)>>, ret |-> "none"],
  [name |-> "glPopAttrib", sig |-> "", decl |-> "JNI_GL_DECLARE0", begin |-> "JNI_GL_BEGIN0", rtype |-> "void", native |-> "glPopAttrib",
   params |-> <<>>,
   views |-> <<>>,
   args |-> <<>>, ret |-> "none"],
  [name |-> "glPopClientAttrib", sig |-> "", decl |-> "JNI_GL_DECLARE0", begin |-> "JNI_GL_BEGIN0", rtype |-> "void", native |-> "glPopClientAttrib",
   params |-> <<>>,
   views |-> <<>>,
   args |-> <<>>, ret |-> "none"],
  [name |-> "glPopMatrix", sig |-> "", decl |-> "JNI_GL_DECLARE0", begin |-> "JNI_GL_BEGIN0", rtype |-> "void", native |-> "glPopMatrix",
   params |-> <<>>,
   views |-> <<>>,
   args |-> <<>>, ret |-> "none"],
  [name |-> "glPopName", sig |-> "", decl |-> "JNI_GL_DECLARE0", begin |-> "JNI_GL_BEGIN0", rtype |-> "void", native |-> "glPopName",
   params |-> <<>>,
   views |-> <<>>,
   args |-> <<>>, ret |-> "none"],
  [name |-> "glPrioritizeTextures", sig |-> "", decl |-> "JNI_GL_DECLARE1", begin |-> "JNI_GL_BEGIN1", rtype |-> "void", native |-> "glPrioritizeTextures",
   params |-> <<"jint", "jintArray", "jfloatArray">>,
   views |-> <<[t |-> "JuintArray", p |-> 2], [t |-> "JfloatArray", p |-> 3]>>,
   args |-> <<P(1), V(1), V(2)>>, ret |-> "none"],
  [name |-> "glPushAttrib", sig |-> "", decl |-> "JNI_GL_DECLARE1", begin |-> "JNI_GL_BEGIN1", rtype |-> "void", native |-> "glPushAttrib",
   params |-> <<"jint">>,
   views |-> <<>>,
   args |-> <<P(1)>>, ret |-> "none"],
  [name |-> "glPushClientAttrib", sig |-> "", decl |-> "JNI_GL_DECLARE1", begin |-> "JNI_GL_BEGIN1", rtype |-> "void", native |-> "glPushClientAttrib",
   params |-> <<"jint">>,
   views |-> <<>>,
   args |-> <<P(1)>>, ret |-> "none"],
  [name |-> "glPushMatrix", sig |-> "", decl |-> "JNI_GL_DECLARE0", begin |-> "JNI_GL_BEGIN0", rtype |-> "void", native |-> "glPushMatrix",
   params |-> <<>>,
   views |-> <<>>,
   args |-> <<>>, ret |-> "none"],
  [name |-> "glPushName", sig |-> "", decl |-> "JNI_GL_DECLARE1", begin |-> "JNI_GL_BEGIN1", rtype |-> "void", native |-> "glPushName",
   params |-> <<"jint">>,
   views |-> <<>>,
   args |-> <<P(1)>>, ret |-> "none"],
  [name |-> "glRasterPos2d", sig |-> "", decl |-> "JNI_GL_DECLARE1", begin |-> "JNI_GL_BEGIN1", rtype |-> "void", native |-> "glRasterPos2d",
   params |-> <<"jdouble", "jdouble">>,
   views |-> <<>>,
   args |-> <<P(1), P(2)>>, ret |-> "none"],
  [name |-> "glRasterPos2dv", sig |-> "", decl |-> "JNI_GL_DECLARE1", begin |-> "JNI_GL_BEGIN1", rtype |-> "void", native |-> "glRasterPos2dv",
   params |-> <<"jdoubleArray">>,
   views |-> <<[t |-> "JdoubleArray", p |-> 1]>>,
   args |-> <<V(1)>>, ret |-> "none"],
  [name |-> "glRasterPos2f", sig |-> "", decl |-> "JNI_GL_DECLARE1", begin |-> "JNI_GL_BEGIN1", rtype |-> "void", native |-> "glRasterPos2f",
   params |-> <<"jfloat", "jfloat">>,
   views |-> <<>>,
   args |-> <<P(1), P(2)>>, ret |-> "none"],
  [name |-> "glRasterPos2fv", sig |-> "", decl |-> "JNI_GL_DECLARE1", begin |-> "JNI_GL_BEGIN1", rtype |-> "void", native |-> "glRasterPos2fv",
   params |-> <<"jfloatArray">>,
   views |-> <<[t |-> "JfloatArray", p |-> 1]>>,
   args |-> <<V(1)>>, ret |-> "none"],
  [name |-> "glRasterPos2i", sig |-> "", decl |-> "JNI_GL_DECLARE1", begin |-> "JNI_GL_BEGIN1", rtype |-> "void", native |-> "glRasterPos2i",
   params |-> <<"jint", "jint">>,
   views |-> <<>>,
   args |-> <<P(1), P(2)>>, ret |-> "none"],
  [name |-> "glRasterPos2iv", sig |-> "", decl |-> "JNI_GL_DECLARE1", begin |-> "JNI_GL_BEGIN1", rtype |-> "void", native |-> "glRasterPos2iv",
   params |-> <<"jintArray">>,
   views |-> <<[t |-> "JintArray", p |-> 1]>>,
   args |-> <<V(1)>>, ret |-> "none"],
  [name |-> "glRasterPos2s", sig |-> "", decl |-> "JNI_GL_DECLARE1", begin |-> "JNI_GL_BEGIN1", rtype |-> "void", native |-> "glRasterPos2s",
   params |-> <<"jshort", "jshort">>,
   views |-> <<>>,
   args |-> <<P(1), P(2)>>, ret |-> "none"],
  [name |-> "glRasterPos2sv", sig |-> "", decl |-> "JNI_GL_DECLARE1", begin |-> "JNI_GL_BEGIN1", rtype |-> "void", native |-> "glRasterPos2sv",
   params |-> <<"jshortArray">>,
   views |-> <<[t |-> "JshortArray", p |-> 1]>>,
   args |-> <<V(1)>>, ret |-> "none"],
  [name |-> "glRasterPos3d", sig |-> "", decl |-> "JNI_GL_DECLARE1", begin |-> "JNI_GL_BEGIN1", rtype |-> "void", native |-> "glRasterPos3d",
   params |-> <<"jdouble", "jdouble", "jdouble">>,
   views |-> <<>>,
   args |-> <<P(1), P(2), P(3)>>, ret |-> "none"],
  [name |-> "glRasterPos3dv", sig |-> "", decl |-> "JNI_GL_DECLARE1", begin |-> "JNI_GL_BEGIN1", rtype |-> "void", native |-> "glRasterPos3dv",
   params |-> <<"jdoubleArray">>,
   views |-> <<[t |-> "JdoubleArray", p |-> 1]>>,
   args |-> <<V(1)>>, ret |-> "none"],
  [name |-> "glRasterPos3f", sig |-> "", decl |-> "JNI_GL_DECLARE1", begin |-> "JNI_GL_BEGIN1", rtype |-> "void", native |-> "glRasterPos3f",
   params |-> <<"jfloat", "jfloat", "jfloat">>,
   views |-> <<>>,
   args |-> <<P(1), P(2), P(3)>>, ret |-> "none"],
  [name |-> "glRasterPos3fv", sig |-> "", decl |-> "JNI_GL_DECLARE1", begin |-> "JNI_GL_BEGIN1", rtype |-> "void", native |-> "glRasterPos3fv",
   params |-> <<"jfloatArray">>,
   views |-> <<[t |-> "JfloatArray", p |-> 1]>>,
   args |-> <<V(1)>>, ret |-> "none"],
  [name |-> "glRasterPos3i", sig |-> "", decl |-> "JNI_GL_DECLARE1", begin |-> "JNI_GL_BEGIN1", rtype |-> "void", native |-> "glRasterPos3i",
   params |-> <<"jint", "jint", "jint">>,
   views |-> <<>>,
   args |-> <<P(1), P(2), P(3)>>, ret |-> "none"],
  [name |-> "glRasterPos3iv", sig |-> "", decl |-> "JNI_GL_DECLARE1", begin |-> "JNI_GL_BEGIN1", rtype |-> "void", native |-> "glRasterPos3iv",
   params |-> <<"jintArray">>,
   views |-> <<[t |-> "JintArray", p |-> 1]>>,
   args |-> <<V(1)>>, ret |-> "none"],
  [name |-> "glRasterPos3s", sig |-> "", decl |-> "JNI_GL_DECLARE1", begin |-> "JNI_GL_BEGIN1", rtype |-> "void", native |-> "glRasterPos3s",
   params |-> <<"jshort", "jshort", "jshort">>,
   views |-> <<>>,
   args |-> <<P(1), P(2), P(3)>>, ret |-> "none"],
  [name |-> "glRasterPos3sv", sig |-> "", decl |-> "JNI_GL_DECLARE1", begin |-> "JNI_GL_BEGIN1", rtype |-> "void", native |-> "glRasterPos3sv",
   params |-> <<"jshortArray">>,
   views |-> <<[t |-> "JshortArray", p |-> 1]>>,
   args |-> <<V(1)>>, ret |-> "none"],
  [name |-> "glRasterPos4d", sig |-> "", decl |-> "JNI_GL_DECLARE1", begin |-> "JNI_GL_BEGIN1", rtype |-> "void", native |-> "glRasterPos4d",
   params |-> <<"jdouble", "jdouble", "jdouble", "jdouble">>,
   views |-> <<>>,
   args |-> <<P(1), P(2), P(3), P(4)>>, ret |-> "none"],
  [name |-> "glRasterPos4dv", sig |-> "", decl |-> "JNI_GL_DECLARE1", begin |-> "JNI_GL_BEGIN1", rtype |-> "void", native |-> "glRasterPos4dv",
   params |-> <<"jdoubleArray">>,
   views |-> <<[t |-> "JdoubleArray", p |-> 1]>>,
   args |-> <<V(1)>>, ret |-> "none"],
  [name |-> "glRasterPos4f", sig |-> "", decl |-> "JNI_GL_DECLARE1", begin |-> "JNI_GL_BEGIN1", rtype |-> "void", native |-> "glRasterPos4f",
   params |-> <<"jfloat", "jfloat", "jfloat", "jfloat">>,
   views |-> <<>>,
   args |-> <<P(1), P(2), P(3), P(4)>>, ret |-> "none"],
  [name |-> "glRasterPos4fv", sig |-> "", decl |-> "JNI_GL_DECLARE1", begin |-> "JNI_GL_BEGIN1", rtype |-> "void", native |-> "glRasterPos4fv",
   params |-> <<"jfloatArray">>,
   views |-> <<[t |-> "JfloatArray", p |-> 1]>>,
   args |-> <<V(1)>>, ret |-> "none"],
  [name |-> "glRasterPos4i", sig |-> "", decl |-> "JNI_GL_DECLARE1", begin |-> "JNI_GL_BEGIN1", rtype |-> "void", native |-> "glRasterPos4i",
   params |-> <<"jint", "jint", "jint", "jint">>,
   views |-> <<>>,
   args |-> <<P(1), P(2), P(3), P(4)>>, ret |-> "none"],
  [name |-> "glRasterPos4iv", sig |-> "", decl |-> "JNI_GL_DECLARE1", begin |-> "JNI_GL_BEGIN1", rtype |-> "void", native |-> "glRasterPos4iv",
   params |-> <<"jintArray">>,
   views |-> <<[t |-> "JintArray", p |-> 1]>>,
   args |-> <<V(1)>>, ret |-> "none"],
  [name |-> "glRasterPos4s", sig |-> "", decl |-> "JNI_GL_DECLARE1", begin |-> "JNI_GL_BEGIN1", rtype |-> "void", native |-> "glRasterPos4s",
   params |-> <<"jshort", "jshort", "jshort", "jshort">>,
   views |-> <<>>,
   args |-> <<P(1), P(2), P(3), P(4)>>, ret |-> "none"],
  [name |-> "glRasterPos4sv", sig |-> "", decl |-> "JNI_GL_DECLARE1", begin |-> "JNI_GL_BEGIN1", rtype |-> "void", native |-> "glRasterPos4sv",
   params |-> <<"jshortArray">>,
   views |-> <<[t |-> "JshortArray", p |-> 1]>>,
   args |-> <<V(1)>>, ret |-> "none"],
  [name |-> "glReadBuffer", sig |-> "", decl |-> "JNI_GL_DECLARE1", begin |-> "JNI_GL_BEGIN1", rtype |-> "void", native |-> "glReadBuffer",
   params |-> <<"jint">>,
   views |-> <<>>,
   args |-> <<P(1)>>, ret |-> "none"],
  [name |-> "glReadPixels", sig |-> "IIIIII_3B", decl |-> "JNI_GL_DECLARE1", begin |-> "JNI_GL_BEGIN1", rtype |-> "void", native |-> "glReadPixels",
   params |-> <<"jint", "jint", "jint", "jint", "jint", "jint", "jarray">>,
   views |-> <<[t |-> "JvoidArray", p |-> 7]>>,
   args |-> <<P(1), P(2), P(3), P(4), P(5), P(6), V(1)>>, ret |-> "none"],
  [name |-> "glReadPixels", sig |-> "IIIIII_3I", decl |-> "JNI_GL_DECLARE1", begin |-> "JNI_GL_BEGIN1", rtype |-> "void", native |-> "glReadPixels",
   params |-> <<"jint", "jint", "jint", "jint", "jint", "jint", "jarray">>,
   views |-> <<[t |-> "JvoidArray", p |-> 7]>>,
   args |-> <<P(1), P(2), P(3), P(4), P(5), P(6), V(1)>>, ret |-> "none"],
  [name |-> "glReadPixels", sig |-> "IIIIII_3S", decl |-> "JNI_GL_DECLARE1", begin |-> "JNI_GL_BEGIN1", rtype |-> "void", native |-> "glReadPixels",
   params |-> <<"jint", "jint", "jint", "jint", "jint", "jint", "jarray">>,
   views |-> <<[t |-> "JvoidArray", p |-> 7]>>,
   args |-> <<P(1), P(2), P(3), P(4), P(5), P(6), V(1)>>, ret |-> "none"],
  [name |-> "glRectd", sig |-> "", decl |-> "JNI_GL_DECLARE1", begin |-> "JNI_GL_BEGIN1", rtype |-> "void", native |-> "glRectd",
   params |-> <<"jdouble", "jdouble", "jdouble", "jdouble">>,
   views |-> <<>>,
   args |-> <<P(1), P(2), P(3), P(4)>>, ret |-> "none"],
  [name |-> "glRectdv", sig |-> "", decl |-> "JNI_GL_DECLARE1", begin |-> "JNI_GL_BEGIN1", rtype |-> "void", native |-> "glRectdv",
   params |-> <<"jdoubleArray", "jdoubleArray">>,
   views |-> <<[t |-> "JdoubleArray", p |-> 1], [t |-> "JdoubleArray", p |-> 2]>>,
   args |-> <<V(1), V(2)>>, ret |-> "none"],
  [name |-> "glRectf", sig |-> "", decl |-> "JNI_GL_DECLARE1", begin |-> "JNI_GL_BEGIN1", rtype |-> "void", native |-> "glRectf",
   params |-> <<"jfloat", "jfloat", "jfloat", "jfloat">>,
   views |-> <<>>,
   args |-> <<P(1), P(2), P(3), P(4)>>, ret |-> "none"],
  [name |-> "glRectfv", sig |-> "", decl |-> "JNI_GL_DECLARE1", begin |-> "JNI_GL_BEGIN1", rtype |-> "void", native |-> "glRectfv",
   params |-> <<"jfloatArray", "jfloatArray">>,
   views |-> <<[t |-> "JfloatArray", p |-> 1], [t |-> "JfloatArray", p |-> 2]>>,
   args |-> <<V(1), V(2)>>, ret |-> "none"],
  [name |-> "glRecti", sig |-> "", decl |-> "JNI_GL_DECLARE1", begin |-> "JNI_GL_BEGIN1", rtype |-> "void", native |-> "glRecti",
   params |-> <<"jint", "jint", "jint", "jint">>,
   views |-> <<>>,
   args |-> <<P(1), P(2), P(3), P(4)>>, ret |-> "none"],
  [name |-> "glRectiv", sig |-> "", decl |-> "JNI_GL_DECLARE1", begin |-> "JNI_GL_BEGIN1", rtype |-> "void", native |-> "glRectiv",
   params |-> <<"jintArray", "jintArray">>,
   views |-> <<[t |-> "JintArray", p |-> 1], [t |-> "JintArray", p |-> 2]>>,
   args |-> <<V(1), V(2)>>, ret |-> "none"],
  [name |-> "glRects", sig |-> "", decl |-> "JNI_GL_DECLARE1", begin |-> "JNI_GL_BEGIN1", rtype |-> "void", native |-> "glRects",
   params |-> <<"jshort", "jshort", "jshort", "jshort">>,
   views |-> <<>>,
   args |-> <<P(1), P(2), P(3), P(4)>>, ret |-> "none"],
  [name |-> "glRectsv", sig |-> "", decl |-> "JNI_GL_DECLARE1", begin |-> "JNI_GL_BEGIN1", rtype |-> "void", native |-> "glRectsv",
   params |-> <<"jshortArray", "jshortArray">>,
   views |-> <<[t |-> "JshortArray", p |-> 1], [t |-> "JshortArray", p |-> 2]>>,
   args |-> <<V(1), V(2)>>, ret |-> "none"],
  [name |-> "glRenderMode", sig |-> "", decl |-> "JNI_GL_DECLARE_RETURN1", begin |-> "JNI_GL_BEGIN1", rtype |-> "jint", native |-> "glRenderMode",
   params |-> <<"jint">>,
   views |-> <<>>,
   args |-> <<P(1)>>, ret |-> "value"],
  [name |-> "glRotated", sig |-> "", decl |-> "JNI_GL_DECLARE1", begin |-> "JNI_GL_BEGIN1", rtype |-> "void", native |-> "glRotated",
   params |-> <<"jdouble", "jdouble", "jdouble", "jdouble">>,
   views |-> <<>>,
   args |-> <<P(1), P(2), P(3), P(4)>>, ret |-> "none"],
  [name |-> "glRotatef", sig |-> "", decl |-> "JNI_GL_DECLARE1", begin |-> "JNI_GL_BEGIN1", rtype |-> "void", native |-> "glRotatef",
   params |-> <<"jfloat", "jfloat", "jfloat", "jfloat">>,
   views |-> <<>>,
   args |-> <<P(1), P(2), P(3), P(4)>>, ret |-> "none"],
  [name |-> "glScaled", sig |-> "", decl |-> "JNI_GL_DECLARE1", begin |-> "JNI_GL_BEGIN1", rtype |-> "void", native |-> "glScaled",
   params |-> <<"jdouble", "jdouble", "jdouble">>,
   views |-> <<>>,
   args |-> <<P(1), P(2), P(3)>>, ret |-> "none"],
  [name |-> "glScalef", sig |-> "", decl |-> "JNI_GL_DECLARE1", begin |-> "JNI_GL_BEGIN1", rtype |-> "void", native |-> "glScalef",
   params |-> <<"jfloat", "jfloat", "jfloat">>,
   views |-> <<>>,
   args |-> <<P(1), P(2), P(3)>>, ret |-> "none"],
  [name |-> "glScissor", sig |-> "", decl |-> "JNI_GL_DECLARE1", begin |-> "JNI_GL_BEGIN1", rtype |-> "void", native |-> "glScissor",
   params |-> <<"jint", "jint", "jint", "jint">>,
   views |-> <<>>,
   args |-> <<P(1), P(2), P(3), P(4)>>, ret |-> "none"],
  [name |-> "glSelectBuffer", sig |-> "", decl |-> "JNI_GL_DECLARE1", begin |-> "JNI_GL_BEGIN1", rtype |-> "void", native |-> "glSelectBuffer",
   params |-> <<"jint", "jobject">>,
   views |-> <<[t |-> "JuintBuffer", p |-> 2]>>,
   args |-> <<P(1), V(1)>>, ret |-> "none"],
  [name |-> "glShadeModel", sig |-> "", decl |-> "JNI_GL_DECLARE1", begin |-> "JNI_GL_BEGIN1", rtype |-> "void", native |-> "glShadeModel",
   params |-> <<"jint">>,
   views |-> <<>>,
   args |-> <<P(1)>>, ret |-> "none"],
  [name |-> "glStencilFunc", sig |-> "", decl |-> "JNI_GL_DECLARE1", begin |-> "JNI_GL_BEGIN1", rtype |-> "void", native |-> "glStencilFunc",
   params |-> <<"jint", "jint", "jint">>,
   views |-> <<>>,
   args |-> <<P(1), P(2), P(3)>>, ret |-> "none"],
  [name |-> "glStencilMask", sig |-> "", decl |-> "JNI_GL_DECLARE1", begin |-> "JNI_GL_BEGIN1", rtype |-> "void", native |-> "glStencilMask",
   params |-> <<"jint">>,
   views |-> <<>>,
   args |-> <<P(1)>>, ret |-> "none"],
  [name |-> "glStencilOp", sig |-> "", decl |-> "JNI_GL_DECLARE1", begin |-> "JNI_GL_BEGIN1", rtype |-> "void", native |-> "glStencilOp",
   params |-> <<"jint", "jint", "jint">>,
   views |-> <<>>,
   args |-> <<P(1), P(2), P(3)>>, ret |-> "none"],
  [name |-> "glTexCoord1d", sig |-> "", decl |-> "JNI_GL_DECLARE1", begin |-> "JNI_GL_BEGIN1", rtype |-> "void", native |-> "glTexCoord1d",
   params |-> <<"jdouble">>,
   views |-> <<>>,
   args |-> <<P(1)>>, ret |-> "none"],
  [name |-> "glTexCoord1dv", sig |-> "", decl |-> "JNI_GL_DECLARE1", begin |-> "JNI_GL_BEGIN1", rtype |-> "void", native |-> "glTexCoord1dv",
   params |-> <<"jdoubleArray">>,
   views |-> <<[t |-> "JdoubleArray", p |-> 1]>>,
   args |-> <<V(1)>>, ret |-> "none"],
  [name |-> "glTexCoord1f", sig |-> "", decl |-> "JNI_GL_DECLARE1", begin |-> "JNI_GL_BEGIN1", rtype |-> "void", native |-> "glTexCoord1f",
   params |-> <<"jfloat">>,
   views |-> <<>>,
   args |-> <<P(1)>>, ret |-> "none"],
  [name |-> "glTexCoord1fv", sig |-> "", decl |-> "JNI_GL_DECLARE1", begin |-> "JNI_GL_BEGIN1", rtype |-> "void", native |-> "glTexCoord1fv",
   params |-> <<"jfloatArray">>,
   views |-> <<[t |-> "JfloatArray", p |-> 1]>>,
   args |-> <<V(1)>>, ret |-> "none"],
  [name |-> "glTexCoord1i", sig |-> "", decl |-> "JNI_GL_DECLARE1", begin |-> "JNI_GL_BEGIN1", rtype |-> "void", native |-> "glTexCoord1i",
   params |-> <<"jint">>,
   views |-> <<>>,
   args |-> <<P(1)>>, ret |-> "none"],
  [name |-> "glTexCoord1iv", sig |-> "", decl |-> "JNI_GL_DECLARE1", begin |-> "JNI_GL_BEGIN1", rtype |-> "void", native |-> "glTexCoord1iv",
   params |-> <<"jintArray">>,
   views |-> <<[t |-> "JintArray", p |-> 1]>>,
   args |-> <<V(1)>>, ret |-> "none"],
  [name |-> "glTexCoord1s", sig |-> "", decl |-> "JNI_GL_DECLARE1", begin |-> "JNI_GL_BEGIN1", rtype |-> "void", native |-> "glTexCoord1s",
   params |-> <<"jshort">>,
   views |-> <<>>,
   args |-> <<P(1)>>, ret |-> "none"],
  [name |-> "glTexCoord1sv", sig |-> "", decl |-> "JNI_GL_DECLARE1", begin |-> "JNI_GL_BEGIN1", rtype |-> "void", native |-> "glTexCoord1sv",
   params |-> <<"jshortArray">>,
   views |-> <<[t |-> "JshortArray", p |-> 1]>>,
   args |-> <<V(1)>>, ret |-> "none"],
  [name |-> "glTexCoord2d", sig |-> "", decl |-> "JNI_GL_DECLARE1", begin |-> "JNI_GL_BEGIN1", rtype |-> "void", native |-> "glTexCoord2d",
   params |-> <<"jdouble", "jdouble">>,
   views |-> <<>>,
   args |-> <<P(1), P(2)>>, ret |-> "none"],
  [name |-> "glTexCoord2dv", sig |-> "", decl |-> "JNI_GL_DECLARE1", begin |-> "JNI_GL_BEGIN1", rtype |-> "void", native |-> "glTexCoord2dv",
   params |-> <<"jdoubleArray">>,
   views |-> <<[t |-> "JdoubleArray", p |-> 1]>>,
   args |-> <<V(1)>>, ret |-> "none"],
  [name |-> "glTexCoord2f", sig |-> "", decl |-> "JNI_GL_DECLARE1", begin |-> "JNI_GL_BEGIN1", rtype |-> "void", native |-> "glTexCoord2f",
   params |-> <<"jfloat", "jfloat">>,
   views |-> <<>>,
   args |-> <<P(1), P(2)>>, ret |-> "none"],
  [name |-> "glTexCoord2fv", sig |-> "", decl |-> "JNI_GL_DECLARE1", begin |-> "JNI_GL_BEGIN1", rtype |-> "void", native |-> "glTexCoord2fv",
   params |-> <<"jfloatArray">>,
   views |-> <<[t |-> "JfloatArray", p |-> 1]>>,
   args |-> <<V(1)>>, ret |-> "none"],
  [name |-> "glTexCoord2i", sig |-> "", decl |-> "JNI_GL_DECLARE1", begin |-> "JNI_GL_BEGIN1", rtype |-> "void", native |-> "glTexCoord2i",
   params |-> <<"jint", "jint">>,
   views |-> <<>>,
   args |-> <<P(1), P(2)>>, ret |-> "none"],
  [name |-> "glTexCoord2iv", sig |-> "", decl |-> "JNI_GL_DECLARE1", begin |-> "JNI_GL_BEGIN1", rtype |-> "void", native |-> "glTexCoord2iv",
   params |-> <<"jintArray">>,
   views |-> <<[t |-> "JintArray", p |-> 1]>>,
   args |-> <<V(1)>>, ret |-> "none"],
  [name |-> "glTexCoord2s", sig |-> "", decl |-> "JNI_GL_DECLARE1", begin |-> "JNI_GL_BEGIN1", rtype |-> "void", native |-> "glTexCoord2s",
   params |-> <<"jshort", "jshort">>,
   views |-> <<>>,
   args |-> <<P(1), P(2)>>, ret |-> "none"],
  [name |-> "glTexCoord2sv", sig |-> "", decl |-> "JNI_GL_DECLARE1", begin |-> "JNI_GL_BEGIN1", rtype |-> "void", native |-> "glTexCoord2sv",
   params |-> <<"jshortArray">>,
   views |-> <<[t |-> "JshortArray", p |-> 1]>>,
   args |-> <<V(1)>>, ret |-> "none"],
  [name |-> "glTexCoord3d", sig |-> "", decl |-> "JNI_GL_DECLARE1", begin |-> "JNI_GL_BEGIN1", rtype |-> "void", native |-> "glTexCoord3d",
   params |-> <<"jdouble", "jdouble", "jdouble">>,
   views |-> <<>>,
   args |-> <<P(1), P(2), P(3)>>, ret |-> "none"],
  [name |-> "glTexCoord3dv", sig |-> "", decl |-> "JNI_GL_DECLARE1", begin |-> "JNI_GL_BEGIN1", rtype |-> "void", native |-> "glTexCoord3dv",
   params |-> <<"jdoubleArray">>,
   views |-> <<[t |-> "JdoubleArray", p |-> 1]>>,
   args |-> <<V(1)>>, ret |-> "none"],
  [name |-> "glTexCoord3f", sig |-> "", decl |-> "JNI_GL_DECLARE1", begin |-> "JNI_GL_BEGIN1", rtype |-> "void", native |-> "glTexCoord3f",
   params |-> <<"jfloat", "jfloat", "jfloat">>,
   views |-> <<>>,
   args |-> <<P(1), P(2), P(3)>>, ret |-> "none"],
  [name |-> "glTexCoord3fv", sig |-> "", decl |-> "JNI_GL_DECLARE1", begin |-> "JNI_GL_BEGIN1", rtype |-> "void", native |-> "glTexCoord3fv",
   params |-> <<"jfloatArray">>,
   views |-> <<[t |-> "JfloatArray", p |-> 1]>>,
   args |-> <<V(1)>>, ret |-> "none"],
  [name |-> "glTexCoord3i", sig |-> "", decl |-> "JNI_GL_DECLARE1", begin |-> "JNI_GL_BEGIN1", rtype |-> "void", native |-> "glTexCoord3i",
   params |-> <<"jint", "jint", "jint">>,
   views |-> <<>>,
   args |-> <<P(1), P(2), P(3)>>, ret |-> "none"],
  [name |-> "glTexCoord3iv", sig |-> "", decl |-> "JNI_GL_DECLARE1", begin |-> "JNI_GL_BEGIN1", rtype |-> "void", native |-> "glTexCoord3iv",
   params |-> <<"jintArray">>,
   views |-> <<[t |-> "JintArray", p |-> 1]>>,
   args |-> <<V(1)>>, ret |-> "none"],
  [name |-> "glTexCoord3s", sig |-> "", decl |-> "JNI_GL_DECLARE1", begin |-> "JNI_GL_BEGIN1", rtype |-> "void", native |-> "glTexCoord3s",
   params |-> <<"jshort", "jshort", "jshort">>,
   views |-> <<>>,
   args |-> <<P(1), P(2), P(3)>>, ret |-> "none"],
  [name |-> "glTexCoord3sv", sig |-> "", decl |-> "JNI_GL_DECLARE1", begin |-> "JNI_GL_BEGIN1", rtype |-> "void", native |-> "glTexCoord3sv",
   params |-> <<"jshortArray">>,
   views |-> <<[t |-> "JshortArray", p |-> 1]>>,
   args |-> <<V(1)>>, ret |-> "none"],
  [name |-> "glTexCoord4d", sig |-> "", decl |-> "JNI_GL_DECLARE1", begin |-> "JNI_GL_BEGIN1", rtype |-> "void", native |-> "glTexCoord4d",
   params |-> <<"jdouble", "jdouble", "jdouble", "jdouble">>,
   views |-> <<>>,
   args |-> <<P(1), P(2), P(3), P(4)>>, ret |-> "none"],
  [name |-> "glTexCoord4dv", sig |-> "", decl |-> "JNI_GL_DECLARE1", begin |-> "JNI_GL_BEGIN1", rtype |-> "void", native |-> "glTexCoord4dv",
   params |-> <<"jdoubleArray">>,
   views |-> <<[t |-> "JdoubleArray", p |-> 1]>>,
   args |-> <<V(1)>>, ret |-> "none"],
  [name |-> "glTexCoord4f", sig |-> "", decl |-> "JNI_GL_DECLARE1", begin |-> "JNI_GL_BEGIN1", rtype |-> "void", native |-> "glTexCoord4f",
   params |-> <<"jfloat", "jfloat", "jfloat", "jfloat">>,
   views |-> <<>>,
   args |-> <<P(1), P(2), P(3), P(4)>>, ret |-> "none"],
  [name |-> "glTexCoord4fv", sig |-> "", decl |-> "JNI_GL_DECLARE1", begin |-> "JNI_GL_BEGIN1", rtype |-> "void", native |-> "glTexCoord4fv",
   params |-> <<"jfloatArray">>,
   views |-> <<[t |-> "JfloatArray", p |-> 1]>>,
   args |-> <<V(1)>>, ret |-> "none"],
  [name |-> "glTexCoord4i", sig |-> "", decl |-> "JNI_GL_DECLARE1", begin |-> "JNI_GL_BEGIN1", rtype |-> "void", native |-> "glTexCoord4i",
   params |-> <<"jint", "jint", "jint", "jint">>,
   views |-> <<>>,
   args |-> <<P(1), P(2), P(3), P(4)>>, ret |-> "none"],
  [name |-> "glTexCoord4iv", sig |-> "", decl |-> "JNI_GL_DECLARE1", begin |-> "JNI_GL_BEGIN1", rtype |-> "void", native |-> "glTexCoord4iv",
   params |-> <<"jintArray">>,
   views |-> <<[t |-> "JintArray", p |-> 1]>>,
   args |-> <<V(1)>>, ret |-> "none"],
  [name |-> "glTexCoord4s", sig |-> "", decl |-> "JNI_GL_DECLARE1", begin |-> "JNI_GL_BEGIN1", rtype |-> "void", native |-> "glTexCoord4s",
   params |-> <<"jshort", "jshort", "jshort", "jshort">>,
   views |-> <<>>,
   args |-> <<P(1), P(2), P(3), P(4)>>, ret |-> "none"],
  [name |-> "glTexCoord4sv", sig |-> "", decl |-> "JNI_GL_DECLARE1", begin |-> "JNI_GL_BEGIN1", rtype |-> "void", native |-> "glTexCoord4sv",
   params |-> <<"jshortArray">>,
   views |-> <<[t |-> "JshortArray", p |-> 1]>>,
   args |-> <<V(1)>>, ret |-> "none"],
  [name |-> "glTexCoordPointer", sig |-> "", decl |-> "JNI_GL_DECLARE1", begin |-> "JNI_GL_BEGIN1", rtype |-> "void", native |-> "glTexCoordPointer",
   params |-> <<"jint", "jint", "jint", "jobject">>,
   views |-> <<[t |-> "JvoidBuffer", p |-> 4]>>,
   args |-> <<P(1), P(2), P(3), V(1)>>, ret |-> "none"],
  [name |-> "glTexEnvf", sig |-> "", decl |-> "JNI_GL_DECLARE1", begin |-> "JNI_GL_BEGIN1", rtype |-> "void", native |-> "glTexEnvf",
   params |-> <<"jint", "jint", "jfloat">>,
   views |-> <<>>,
   args |-> <<P(1), P(2), P(3)>>, ret |-> "none"],
  [name |-> "glTexEnvfv", sig |-> "", decl |-> "JNI_GL_DECLARE1", begin |-> "JNI_GL_BEGIN1", rtype |-> "void", native |-> "glTexEnvfv",
   params |-> <<"jint", "jint", "jfloatArray">>,
   views |-> <<[t |-> "JfloatArray", p |-> 3]>>,
   args |-> <<P(1), P(2), V(1)>>, ret |-> "none"],
  [name |-> "glTexEnvi", sig |-> "", decl |-> "JNI_GL_DECLARE1", begin |-> "JNI_GL_BEGIN1", rtype |-> "void", native |-> "glTexEnvi",
   params |-> <<"jint", "jint", "jint">>,
   views |-> <<>>,
   args |-> <<P(1), P(2), P(3)>>, ret |-> "none"],
  [name |-> "glTexEnviv", sig |-> "", decl |-> "JNI_GL_DECLARE1", begin |-> "JNI_GL_BEGIN1", rtype |-> "void", native |-> "glTexEnviv",
   params |-> <<"jint", "jint", "jintArray">>,
   views |-> <<[t |-> "JintArray", p |-> 3]>>,
   args |-> <<P(1), P(2), V(1)>>, ret |-> "none"],
  [name |-> "glTexGend", sig |-> "", decl |-> "JNI_GL_DECLARE1", begin |-> "JNI_GL_BEGIN1", rtype |-> "void", native |-> "glTexGend",
   params |-> <<"jint", "jint", "jdouble">>,
   views |-> <<>>,
   args |-> <<P(1), P(2), P(3)>>, ret |-> "none"],
  [name |-> "glTexGendv", sig |-> "", decl |-> "JNI_GL_DECLARE1", begin |-> "JNI_GL_BEGIN1", rtype |-> "void", native |-> "glTexGendv",
   params |-> <<"jint", "jint", "jdoubleArray">>,
   views |-> <<[t |-> "JdoubleArray", p |-> 3]>>,
   args |-> <<P(1), P(2), V(1)>>, ret |-> "none"],
  [name |-> "glTexGenf", sig |-> "", decl |-> "JNI_GL_DECLARE1", begin |-> "JNI_GL_BEGIN1", rtype |-> "void", native |-> "glTexGenf",
   params |-> <<"jint", "jint", "jfloat">>,
   views |-> <<>>,
   args |-> <<P(1), P(2), P(3)>>, ret |-> "none"],
  [name |-> "glTexGenfv", sig |-> "", decl |-> "JNI_GL_DECLARE1", begin |-> "JNI_GL_BEGIN1", rtype |-> "void", native |-> "glTexGenfv",
   params |-> <<"jint", "jint", "jfloatArray">>,
   views |-> <<[t |-> "JfloatArray", p |-> 3]>>,
   args |-> <<P(1), P(2), V(1)>>, ret |-> "none"],
  [name |-> "glTexGeni", sig |-> "", decl |-> "JNI_GL_DECLARE1", begin |-> "JNI_GL_BEGIN1", rtype |-> "void", native |-> "glTexGeni",
   params |-> <<"jint", "jint", "jint">>,
   views |-> <<>>,
   args |-> <<P(1), P(2), P(3)>>, ret |-> "none"],
  [name |-> "glTexGeniv", sig |-> "", decl |-> "JNI_GL_DECLARE1", begin |-> "JNI_GL_BEGIN1", rtype |-> "void", native |-> "glTexGeniv",
   params |-> <<"jint", "jint", "jintArray">>,
   views |-> <<[t |-> "JintArray", p |-> 3]>>,
   args |-> <<P(1), P(2), V(1)>>, ret |-> "none"],
  [name |-> "glTexImage1D", sig |-> "IIIIIII_3B", decl |-> "JNI_GL_DECLARE1", begin |-> "JNI_GL_BEGIN1", rtype |-> "void", native |-> "glTexImage1D",
   params |-> <<"jint", "jint", "jint", "jint", "jint", "jint", "jint", "jarray">>,
   views |-> <<[t |-> "JvoidArray", p |-> 8]>>,
   args |-> <<P(1), P(2), P(3), P(4), P(5), P(6), P(7), V(1)>>, ret |-> "none"],
  [name |-> "glTexImage1D", sig |-> "IIIIIII_3I", decl |-> "JNI_GL_DECLARE1", begin |-> "JNI_GL_BEGIN1", rtype |-> "void", native |-> "glTexImage1D",
   params |-> <<"jint", "jint", "jint", "jint", "jint", "jint", "jint", "jarray">>,
   views |-> <<[t |-> "JvoidArray", p |-> 8]>>,
   args |-> <<P(1), P(2), P(3), P(4), P(5), P(6), P(7), V(1)>>, ret |-> "none"],
  [name |-> "glTexImage1D", sig |-> "IIIIIII_3S", decl |-> "JNI_GL_DECLARE1", begin |-> "JNI_GL_BEGIN1", rtype |-> "void", native |-> "glTexImage1D",
   params |-> <<"jint", "jint", "jint", "jint", "jint", "jint", "jint", "jarray">>,
   views |-> <<[t |-> "JvoidArray", p |-> 8]>>,
   args |-> <<P(1), P(2), P(3), P(4), P(5), P(6), P(7), V(1)>>, ret |-> "none"],
  [name |-> "glTexImage2D", sig |-> "IIIIIIII_3B", decl |-> "JNI_GL_DECLARE1", begin |-> "JNI_GL_BEGIN1", rtype |-> "void", native |-> "glTexImage2D",
   params |-> <<"jint", "jint", "jint", "jint", "jint", "jint", "jint", "jint", "jarray">>,
   views |-> <<[t |-> "JvoidArray", p |-> 9]>>,
   args |-> <<P(1), P(2), P(3), P(4), P(5), P(6), P(7), P(8), V(1)>>, ret |-> "none"],
  [name |-> "glTexImage2D", sig |-> "IIIIIIII_3I", decl |-> "JNI_GL_DECLARE1", begin |-> "JNI_GL_BEGIN1", rtype |-> "void", native |-> "glTexImage2D",
   params |-> <<"jint", "jint", "jint", "jint", "jint", "jint", "jint", "jint", "jarray">>,
   views |-> <<[t |-> "JvoidArray", p |-> 9]>>,
   args |-> <<P(1), P(2), P(3), P(4), P(5), P(6), P(7), P(8), V(1)>>, ret |-> "none"],
  [name |-> "glTexImage2D", sig |-> "IIIIIIII_3S", decl |-> "JNI_GL_DECLARE1", begin |-> "JNI_GL_BEGIN1", rtype |-> "void", native |-> "glTexImage2D",
   params |-> <<"jint", "jint", "jint", "jint", "jint", "jint", "jint", "jint", "jarray">>,
   views |-> <<[t |-> "JvoidArray", p |-> 9]>>,
   args |-> <<P(1), P(2), P(3), P(4), P(5), P(6), P(7), P(8), V(1)>>, ret |-> "none"],
  [name |-> "glTexParameterf", sig |-> "", decl |-> "JNI_GL_DECLARE1", begin |-> "JNI_GL_BEGIN1", rtype |-> "void", native |-> "glTexParameterf",
   params |-> <<"jint", "jint", "jfloat">>,
   views |-> <<>>,
   args |-> <<P(1), P(2), P(3)>>, ret |-> "none"],
  [name |-> "glTexParameterfv", sig |-> "", decl |-> "JNI_GL_DECLARE1", begin |-> "JNI_GL_BEGIN1", rtype |-> "void", native |-> "glTexParameterfv",
   params |-> <<"jint", "jint", "jfloatArray">>,
   views |-> <<[t |-> "JfloatArray", p |-> 3]>>,
   args |-> <<P(1), P(2), V(1)>>, ret |-> "none"],
  [name |-> "glTexParameteri", sig |-> "", decl |-> "JNI_GL_DECLARE1", begin |-> "JNI_GL_BEGIN1", rtype |-> "void", native |-> "glTexParameteri",
   params |-> <<"jint", "jint", "jint">>,
   views |-> <<>>,
   args |-> <<P(1), P(2), P(3)>>, ret |-> "none"],
  [name |-> "glTexParameteriv", sig |-> "", decl |-> "JNI_GL_DECLARE1", begin |-> "JNI_GL_BEGIN1", rtype |-> "void", native |-> "glTexParameteriv",
   params |-> <<"jint", "jint", "jintArray">>,
   views |-> <<[t |-> "JintArray", p |-> 3]>>,
   args |-> <<P(1), P(2), V(1)>>, ret |-> "none"],
  [name |-> "glTexSubImage1D", sig |-> "IIIIII_3B", decl |-> "JNI_GL_DECLARE1", begin |-> "JNI_GL_BEGIN1", rtype |-> "void", native |-> "glTexSubImage1D",
   params |-> <<"jint", "jint", "jint", "jint", "jint", "jint", "jarray">>,
   views |-> <<[t |-> "JvoidArray", p |-> 7]>>,
   args |-> <<P(1), P(2), P(3), P(4), P(5), P(6), V(1)>>, ret |-> "none"],
  [name |-> "glTexSubImage1D", sig |-> "IIIIII_3I", decl |-> "JNI_GL_DECLARE1", begin |-> "JNI_GL_BEGIN1", rtype |-> "void", native |-> "glTexSubImage1D",
   params |-> <<"jint", "jint", "jint", "jint", "jint", "jint", "jarray">>,
   views |-> <<[t |-> "JvoidArray", p |-> 7]>>,
   args |-> <<P(1), P(2), P(3), P(4), P(5), P(6), V(1)>>, ret |-> "none"],
  [name |-> "glTexSubImage1D", sig |-> "IIIIII_3S", decl |-> "JNI_GL_DECLARE1", begin |-> "JNI_GL_BEGIN1", rtype |-> "void", native |-> "glTexSubImage1D",
   params |-> <<"jint", "jint", "jint", "jint", "jint", "jint", "jarray">>,
   views |-> <<[t |-> "JvoidArray", p |-> 7]>>,
   args |-> <<P(1), P(2), P(3), P(4), P(5), P(6), V(1)>>, ret |-> "none"],
  [name |-> "glTexSubImage2D", sig |-> "IIIIIIII_3B", decl |-> "JNI_GL_DECLARE1", begin |-> "JNI_GL_BEGIN1", rtype |-> "void", native |-> "glTexSubImage2D",
   params |-> <<"jint", "jint", "jint", "jint", "jint", "jint", "jint", "jint", "jarray">>,
   views |-> <<[t |-> "JvoidArray", p |-> 9]>>,
   args |-> <<P(1), P(2), P(3), P(4), P(5), P(6), P(7), P(8), V(1)>>, ret |-> "none"],
  [name |-> "glTexSubImage2D", sig |-> "IIIIIIII_3I", decl |-> "JNI_GL_DECLARE1", begin |-> "JNI_GL_BEGIN1", rtype |-> "void", native |-> "glTexSubImage2D",
   params |-> <<"jint", "jint", "jint", "jint", "jint", "jint", "jint", "jint", "jarray">>,
   views |-> <<[t |-> "JvoidArray", p |-> 9]>>,
   args |-> <<P(1), P(2), P(3), P(4), P(5), P(6), P(7), P(8), V(1)>>, ret |-> "none"],
  [name |-> "glTexSubImage2D", sig |-> "IIIIIIII_3S", decl |-> "JNI_GL_DECLARE1", begin |-> "JNI_GL_BEGIN1", rtype |-> "void", native |-> "glTexSubImage2D",
   params |-> <<"jint", "jint", "jint", "jint", "jint", "jint", "jint", "jint", "jarray">>,
   views |-> <<[t |-> "JvoidArray", p |-> 9]>>,
   args |-> <<P(1), P(2), P(3), P(4), P(5), P(6), P(7), P(8), V(1)>>, ret |-> "none"],
  [name |-> "glTranslated", sig |-> "", decl |-> "JNI_GL_DECLARE1", begin |-> "JNI_GL_BEGIN1", rtype |-> "void", native |-> "glTranslated",
   params |-> <<"jdouble", "jdouble", "jdouble">>,
   views |-> <<>>,
   args |-> <<P(1), P(2), P(3)>>, ret |-> "none"],
  [name |-> "glTranslatef", sig |-> "", decl |-> "JNI_GL_DECLARE1", begin |-> "JNI_GL_BEGIN1", rtype |-> "void", native |-> "glTranslatef",
   params |-> <<"jfloat", "jfloat", "jfloat">>,
   views |-> <<>>,
   args |-> <<P(1), P(2), P(3)>>, ret |-> "none"],
  [name |-> "glVertex2d", sig |-> "", decl |-> "JNI_GL_DECLARE1", begin |-> "JNI_GL_BEGIN1", rtype |-> "void", native |-> "glVertex2d",
   params |-> <<"jdouble", "jdouble">>,
   views |-> <<>>,
   args |-> <<P(1), P(2)>>, ret |-> "none"],
  [name |-> "glVertex2dv", sig |-> "", decl |-> "JNI_GL_DECLARE1", begin |-> "JNI_GL_BEGIN1", rtype |-> "void", native |-> "glVertex2dv",
   params |-> <<"jdoubleArray">>,
   views |-> <<[t |-> "JdoubleArray", p |-> 1]>>,
   args |-> <<V(1)>>, ret |-> "none"],
  [name |-> "glVertex2f", sig |-> "", decl |-> "JNI_GL_DECLARE1", begin |-> "JNI_GL_BEGIN1", rtype |-> "void", native |-> "glVertex2f",
   params |-> <<"jfloat", "jfloat">>,
   views |-> <<>>,
   args |-> <<P(1), P(2)>>, ret |-> "none"],
  [name |-> "glVertex2fv", sig |-> "", decl |-> "JNI_GL_DECLARE1", begin |-> "JNI_GL_BEGIN1", rtype |-> "void", native |-> "glVertex2fv",
   params |-> <<"jfloatArray">>,
   views |-> <<[t |-> "JfloatArray", p |-> 1]>>,
   args |-> <<V(1)>>, ret |-> "none"],
  [name |-> "glVertex2i", sig |-> "", decl |-> "JNI_GL_DECLARE1", begin |-> "JNI_GL_BEGIN1", rtype |-> "void", native |-> "glVertex2i",
   params |-> <<"jint", "jint">>,
   views |-> <<>>,
   args |-> <<P(1), P(2)>>, ret |-> "none"],
  [name |-> "glVertex2iv", sig |-> "", decl |-> "JNI_GL_DECLARE1", begin |-> "JNI_GL_BEGIN1", rtype |-> "void", native |-> "glVertex2iv",
   params |-> <<"jintArray">>,
   views |-> <<[t |-> "JintArray", p |-> 1]>>,
   args |-> <<V(1)>>, ret |-> "none"],
  [name |-> "glVertex2s", sig |-> "", decl |-> "JNI_GL_DECLARE1", begin |-> "JNI_GL_BEGIN1", rtype |-> "void", native |-> "glVertex2s",
   params |-> <<"jshort", "jshort">>,
   views |-> <<>>,
   args |-> <<P(1), P(2)>>, ret |-> "none"],
  [name |-> "glVertex2sv", sig |-> "", decl |-> "JNI_GL_DECLARE1", begin |-> "JNI_GL_BEGIN1", rtype |-> "void", native |-> "glVertex2sv",
   params |-> <<"jshortArray">>,
   views |-> <<[t |-> "JshortArray", p |-> 1]>>,
   args |-> <<V(1)>>, ret |-> "none"],
  [name |-> "glVertex3d", sig |-> "", decl |-> "JNI_GL_DECLARE1", begin |-> "JNI_GL_BEGIN1", rtype |-> "void", native |-> "glVertex3d",
   params |-> <<"jdouble", "jdouble", "jdouble">>,
   views |-> <<>>,
   args |-> <<P(1), P(2), P(3)>>, ret |-> "none"],
  [name |-> "glVertex3dv", sig |-> "", decl |-> "JNI_GL_DECLARE1", begin |-> "JNI_GL_BEGIN1", rtype |-> "void", native |-> "glVertex3dv",
   params |-> <<"jdoubleArray">>,
   views |-> <<[t |-> "JdoubleArray", p |-> 1]>>,
   args |-> <<V(1)>>, ret |-> "none"],
  [name |-> "glVertex3f", sig |-> "", decl |-> "JNI_GL_DECLARE1", begin |-> "JNI_GL_BEGIN1", rtype |-> "void", native |-> "glVertex3f",
   params |-> <<"jfloat", "jfloat", "jfloat">>,
   views |-> <<>>,
   args |-> <<P(1), P(2), P(3)>>, ret |-> "none"],
  [name |-> "glVertex3fv", sig |-> "", decl |-> "JNI_GL_DECLARE1", begin |-> "JNI_GL_BEGIN1", rtype |-> "void", native |-> "glVertex3fv",
   params |-> <<"jfloatArray">>,
   views |-> <<[t |-> "JfloatArray", p |-> 1]>>,
   args |-> <<V(1)>>, ret |-> "none"],
  [name |-> "glVertex3i", sig |-> "", decl |-> "JNI_GL_DECLARE1", begin |-> "JNI_GL_BEGIN1", rtype |-> "void", native |-> "glVertex3i",
   params |-> <<"jint", "jint", "jint">>,
   views |-> <<>>,
   args |-> <<P(1), P(2), P(3)>>, ret |-> "none"],
  [name |-> "glVertex3iv", sig |-> "", decl |-> "JNI_GL_DECLARE1", begin |-> "JNI_GL_BEGIN1", rtype |-> "void", native |-> "glVertex3iv",
   params |-> <<"jintArray">>,
   views |-> <<[t |-> "JintArray", p |-> 1]>>,
   args |-> <<V(1)>>, ret |-> "none"],
  [name |-> "glVertex3s", sig |-> "", decl |-> "JNI_GL_DECLARE1", begin |-> "JNI_GL_BEGIN1", rtype |-> "void", native |-> "glVertex3s",
   params |-> <<"jshort", "jshort", "jshort">>,
   views |-> <<>>,
   args |-> <<P(1), P(2), P(3)>>, ret |-> "none"],
  [name |-> "glVertex3sv", sig |-> "", decl |-> "JNI_GL_DECLARE1", begin |-> "JNI_GL_BEGIN1", rtype |-> "void", native |-> "glVertex3sv",
   params |-> <<"jshortArray">>,
   views |-> <<[t |-> "JshortArray", p |-> 1]>>,
   args |-> <<V(1)>>, ret |-> "none"],
  [name |-> "glVertex4d", sig |-> "", decl |-> "JNI_GL_DECLARE1", begin |-> "JNI_GL_BEGIN1", rtype |-> "void", native |-> "glVertex4d",
   params |-> <<"jdouble", "jdouble", "jdouble", "jdouble">>,
   views |-> <<>>,
   args |-> <<P(1), P(2), P(3), P(4)>>, ret |-> "none"],
  [name |-> "glVertex4dv", sig |-> "", decl |-> "JNI_GL_DECLARE1", begin |-> "JNI_GL_BEGIN1", rtype |-> "void", native |-> "glVertex4dv",
   params |-> <<"jdoubleArray">>,
   views |-> <<[t |-> "JdoubleArray", p |-> 1]>>,
   args |-> <<V(1)>>, ret |-> "none"],
  [name |-> "glVertex4f", sig |-> "", decl |-> "JNI_GL_DECLARE1", begin |-> "JNI_GL_BEGIN1", rtype |-> "void", native |-> "glVertex4f",
   params |-> <<"jfloat", "jfloat", "jfloat", "jfloat">>,
   views |-> <<>>,
   args |-> <<P(1), P(2), P(3), P(4)>>, ret |-> "none"],
  [name |-> "glVertex4fv", sig |-> "", decl |-> "JNI_GL_DECLARE1", begin |-> "JNI_GL_BEGIN1", rtype |-> "void", native |-> "glVertex4fv",
   params |-> <<"jfloatArray">>,
   views |-> <<[t |-> "JfloatArray", p |-> 1]>>,
   args |-> <<V(1)>>, ret |-> "none"],
  [name |-> "glVertex4i", sig |-> "", decl |-> "JNI_GL_DECLARE1", begin |-> "JNI_GL_BEGIN1", rtype |-> "void", native |-> "glVertex4i",
   params |-> <<"jint", "jint", "jint", "jint">>,
   views |-> <<>>,
   args |-> <<P(1), P(2), P(3), P(4)>>, ret |-> "none"],
  [name |-> "glVertex4iv", sig |-> "", decl |-> "JNI_GL_DECLARE1", begin |-> "JNI_GL_BEGIN1", rtype |-> "void", native |-> "glVertex4iv",
   params |-> <<"jintArray">>,
   views |-> <<[t |-> "JintArray", p |-> 1]>>,
   args |-> <<V(1)>>, ret |-> "none"],
  [name |-> "glVertex4s", sig |-> "", decl |-> "JNI_GL_DECLARE1", begin |-> "JNI_GL_BEGIN1", rtype |-> "void", native |-> "glVertex4s",
   params |-> <<"jshort", "jshort", "jshort", "jshort">>,
   views |-> <<>>,
   args |-> <<P(1), P(2), P(3), P(4)>>, ret |-> "none"],
  [name |-> "glVertex4sv", sig |-> "", decl |-> "JNI_GL_DECLARE1", begin |-> "JNI_GL_BEGIN1", rtype |-> "void", native |-> "glVertex4sv",
   params |-> <<"jshortArray">>,
   views |-> <<[t |-> "JshortArray", p |-> 1]>>,
   args |-> <<V(1)>>, ret |-> "none"],
  [name |-> "glVertexPointer", sig |-> "", decl |-> "JNI_GL_DECLARE1", begin |-> "JNI_GL_BEGIN1", rtype |-> "void", native |-> "glVertexPointer",
   params |-> <<"jint", "jint", "jint", "jobject">>,
   views |-> <<[t |-> "JvoidBuffer", p |-> 4]>>,
   args |-> <<P(1), P(2), P(3), V(1)>>, ret |-> "none"],
  [name |-> "glViewport", sig |-> "", decl |-> "JNI_GL_DECLARE1", begin |-> "JNI_GL_BEGIN1", rtype |-> "void", native |-> "glViewport",
   params |-> <<"jint", "jint", "jint", "jint">>,
   views |-> <<>>,
   args |-> <<P(1), P(2), P(3), P(4)>>, ret |-> "none"],
  [name |-> "glBlendColor", sig |-> "", decl |-> "JNI_GL_DECLARE2", begin |-> "JNI_GL_BEGIN2", rtype |-> "void", native |-> "glBlendColor",
   params |-> <<"jfloat", "jfloat", "jfloat", "jfloat">>,
   views |-> <<>>,
   args |-> <<P(1), P(2), P(3), P(4)>>, ret |-> "none"],
  [name |-> "glBlendEquation", sig |-> "", decl |-> "JNI_GL_DECLARE2", begin |-> "JNI_GL_BEGIN2", rtype |-> "void", native |-> "glBlendEquation",
   params |-> <<"jint">>,
   views |-> <<>>,
   args |-> <<P(1)>>, ret |-> "none"],
  [name |-> "glDrawRangeElements", sig |-> "IIIII_3B", decl |-> "JNI_GL_DECLARE2", begin |-> "JNI_GL_BEGIN2", rtype |-> "void", native |-> "glDrawRangeElements",
   params |-> <<"jint", "jint", "jint", "jint", "jint", "jarray">>,
   views |-> <<[t |-> "JvoidArray", p |-> 6]>>,
   args |-> <<P(1), P(2), P(3), P(4), P(5), V(1)>>, ret |-> "none"],
  [name |-> "glDrawRangeElements", sig |-> "IIIII_3I", decl |-> "JNI_GL_DECLARE2", begin |-> "JNI_GL_BEGIN2", rtype |-> "void", native |-> "glDrawRangeElements",
   params |-> <<"jint", "jint", "jint", "jint", "jint", "jarray">>,
   views |-> <<[t |-> "JvoidArray", p |-> 6]>>,
   args |-> <<P(1), P(2), P(3), P(4), P(5), V(1)>>, ret |-> "none"],
  [name |-> "glDrawRangeElements", sig |-> "IIIII_3S", decl |-> "JNI_GL_DECLARE2", begin |-> "JNI_GL_BEGIN2", rtype |-> "void", native |-> "glDrawRangeElements",
   params |-> <<"jint", "jint", "jint", "jint", "jint", "jarray">>,
   views |-> <<[t |-> "JvoidArray", p |-> 6]>>,
   args |-> <<P(1), P(2), P(3), P(4), P(5), V(1)>>, ret |-> "none"]
>>

\* The row of the table for macro argument name__sig.
RowOf(name, sig) ==
  CHOOSE i \in DOMAIN Gl_cpp : Gl_cpp[i].name = name /\ Gl_cpp[i].sig = sig

\* glClearColor passing green where red belongs and red where green belongs.
EntryPoints_swapClearColor ==
  [Gl_cpp EXCEPT ![RowOf("glClearColor", "")].args = <<P(2), P(1), P(3), P(4)>>]

\* glMap2d passing uorder for ustride and ustride for uorder.
EntryPoints_swapMap2d ==
  [Gl_cpp EXCEPT ![RowOf("glMap2d", "")].args =
     <<P(1), P(2), P(3), P(5), P(4), P(6), P(7), P(8), P(9), V(1)>>]

\* glGetPixelMapusv wrapping its array in the signed view.
EntryPoints_signedPixelMap ==
  [Gl_cpp EXCEPT ![RowOf("glGetPixelMapusv", "")].views =
     <<[t |-> "JshortArray", p |-> 2]>>]

\* The short overload of glDrawPixels exported under the name of the int
\* overload.
EntryPoints_dupDrawPixels ==
  [Gl_cpp EXCEPT ![RowOf("glDrawPixels", "IIII_3S")].sig = "IIII_3I"]

\* glDisable asking the library for its error instead of disabling.
EntryPoints_disableAsksError ==
  [Gl_cpp EXCEPT ![RowOf("glDisable", "")].native = "glGetError",
                 ![RowOf("glDisable", "")].args = <<>>]

\* glGetPolygonStipple wrapping its array in the signed view.
EntryPoints_signedStipple ==
  [Gl_cpp EXCEPT ![RowOf("glGetPolygonStipple", "")].views =
     <<[t |-> "JbyteArray", p |-> 1]>>]

\* glGenTextures calling the native glDeleteTextures.
EntryPoints_genDeletes ==
  [Gl_cpp EXCEPT ![RowOf("glGenTextures", "")].native = "glDeleteTextures"]

\* glVertexPointer taking a managed int array behind a JvoidArray view.
EntryPoints_vertexArray ==
  [Gl_cpp EXCEPT ![RowOf("glVertexPointer", "")].params =
                    <<"jint", "jint", "jint", "jintArray">>,
                 ![RowOf("glVertexPointer", "")].views =
                    <<[t |-> "JvoidArray", p |-> 4]>>]

\* glFogfv calling the native glGetFloatv.
EntryPoints_fogGets ==
  [Gl_cpp EXCEPT ![RowOf("glFogfv", "")].native = "glGetFloatv"]

\* The table as the calls below use it.
EntryPoints == Gl_cpp

\* The native methods of the managed class for OpenGL 1.2, as the list at
\* the end of the file declares them: the name after the leading n, the
\* type of the first parameter (long pfunc), the element type of the array
\* parameters ("" when there is none), the number of parameters after the
\* handle and the parameter types in the letters of the legend at the head
\* of the file (the argument signature the runtime appends to the name).
NativeMethods ==
  <<[name |-> "glDrawRangeElements", first |-> "long", array |-> "byte", nparams |-> 6, sig |-> "JIIIII_3B"],
    [name |-> "glDrawRangeElements", first |-> "long", array |-> "int", nparams |-> 6, sig |-> "JIIIII_3I"],
    [name |-> "glDrawRangeElements", first |-> "long", array |-> "short", nparams |-> 6, sig |-> "JIIIII_3S"],
    [name |-> "glColorTable", first |-> "long", array |-> "byte", nparams |-> 6, sig |-> "JIIIII_3B"],
    [name |-> "glColorTable", first |-> "long", array |-> "int", nparams |-> 6, sig |-> "JIIIII_3I"],
    [name |-> "glColorTable", first |-> "long", array |-> "short", nparams |-> 6, sig |-> "JIIIII_3S"],
    [name |-> "glColorTableParameterfv", first |-> "long", array |-> "float", nparams |-> 3, sig |-> "JII_3F"],
    [name |-> "glColorTableParameteriv", first |-> "long", array |-> "int", nparams |-> 3, sig |-> "JII_3I"],
    [name |-> "glCopyColorTable", first |-> "long", array |-> "", nparams |-> 5, sig |-> "JIIIII"],
    [name |-> "glGetColorTable", first |-> "long", array |-> "byte", nparams |-> 4, sig |-> "JIII_3B"],
    [name |-> "glGetColorTable", first |-> "long", array |-> "int", nparams |-> 4, sig |-> "JIII_3I"],
    [name |-> "glGetColorTable", first |-> "long", array |-> "short", nparams |-> 4, sig |-> "JIII_3S"],
    [name |-> "glGetColorTableParameterfv", first |-> "long", array |-> "float", nparams |-> 3, sig |-> "JII_3F"],
    [name |-> "glGetColorTableParameteriv", first |-> "long", array |-> "int", nparams |-> 3, sig |-> "JII_3I"],
    [name |-> "glColorSubTable", first |-> "long", array |-> "byte", nparams |-> 6, sig |-> "JIIIII_3B"],
    [name |-> "glColorSubTable", first |-> "long", array |-> "int", nparams |-> 6, sig |-> "JIIIII_3I"],
    [name |-> "glColorSubTable", first |-> "long", array |-> "short", nparams |-> 6, sig |-> "JIIIII_3S"],
    [name |-> "glCopyColorSubTable", first |-> "long", array |-> "", nparams |-> 5, sig |-> "JIIIII"],
    [name |-> "glConvolutionFilter1D", first |-> "long", array |-> "byte", nparams |-> 6, sig |-> "JIIIII_3B"],
    [name |-> "glConvolutionFilter1D", first |-> "long", array |-> "float", nparams |-> 6, sig |-> "JIIIII_3F"],
    [name |-> "glConvolutionFilter1D", first |-> "long", array |-> "int", nparams |-> 6, sig |-> "JIIIII_3I"],
    [name |-> "glConvolutionFilter1D", first |-> "long", array |-> "short", nparams |-> 6, sig |-> "JIIIII_3S"],
    [name |-> "glConvolutionFilter2D", first |-> "long", array |-> "byte", nparams |-> 7, sig |-> "JIIIIII_3B"],
    [name |-> "glConvolutionFilter2D", first |-> "long", array |-> "float", nparams |-> 7, sig |-> "JIIIIII_3F"],
    [name |-> "glConvolutionFilter2D", first |-> "long", array |-> "int", nparams |-> 7, sig |-> "JIIIIII_3I"],
    [name |-> "glConvolutionFilter2D", first |-> "long", array |-> "short", nparams |-> 7, sig |-> "JIIIIII_3S"],
    [name |-> "glConvolutionParameterf", first |-> "long", array |-> "", nparams |-> 3, sig |-> "JIIF"],
    [name |-> "glConvolutionParameterfv", first |-> "long", array |-> "float", nparams |-> 3, sig |-> "JII_3F"],
    [name |-> "glConvolutionParameteri", first |-> "long", array |-> "", nparams |-> 3, sig |-> "JIII"],
    [name |-> "glConvolutionParameteriv", first |-> "long", array |-> "int", nparams |-> 3, sig |-> "JII_3I"],
    [name |-> "glCopyConvolutionFilter1D", first |-> "long", array |-> "", nparams |-> 5, sig |-> "JIIIII"],
    [name |-> "glCopyConvolutionFilter2D", first |-> "long", array |-> "", nparams |-> 6, sig |-> "JIIIIII"],
    [name |-> "glGetConvolutionFilter", first |-> "long", array |-> "byte", nparams |-> 4, sig |-> "JIII_3B"],
    [name |-> "glGetConvolutionFilter", first |-> "long", array |-> "float", nparams |-> 4, sig |-> "JIII_3F"],
    [name |-> "glGetConvolutionFilter", first |-> "long", array |-> "int", nparams |-> 4, sig |-> "JIII_3I"],
    [name |-> "glGetConvolutionFilter", first |-> "long", array |-> "short", nparams |-> 4, sig |-> "JIII_3S"],
    [name |-> "glGetConvolutionParameterfv", first |-> "long", array |-> "float", nparams |-> 3, sig |-> "JII_3F"],
    [name |-> "glGetConvolutionParameteriv", first |-> "long", array |-> "int", nparams |-> 3, sig |-> "JII_3I"],
    [name |-> "glGetSeparableFilter", first |-> "long", array |-> "byte", nparams |-> 6, sig |-> "JIII_3B_3B_3B"],
    [name |-> "glGetSeparableFilter", first |-> "long", array |-> "float", nparams |-> 6, sig |-> "JIII_3F_3F_3F"],
    [name |-> "glGetSeparableFilter", first |-> "long", array |-> "int", nparams |-> 6, sig |-> "JIII_3I_3I_3I"],
    [name |-> "glGetSeparableFilter", first |-> "long", array |-> "short", nparams |-> 6, sig |-> "JIII_3S_3S_3S"],
    [name |-> "glSeparableFilter2D", first |-> "long", array |-> "byte", nparams |-> 8, sig |-> "JIIIIII_3B_3B"],
    [name |-> "glSeparableFilter2D", first |-> "long", array |-> "float", nparams |-> 8, sig |-> "JIIIIII_3F_3F"],
    [name |-> "glSeparableFilter2D", first |-> "long", array |-> "int", nparams |-> 8, sig |-> "JIIIIII_3I_3I"],
    [name |-> "glSeparableFilter2D", first |-> "long", array |-> "short", nparams |-> 8, sig |-> "JIIIIII_3S_3S"],
    [name |-> "glGetHistogram", first |-> "long", array |-> "byte", nparams |-> 5, sig |-> "JIZII_3B"],
    [name |-> "glGetHistogram", first |-> "long", array |-> "float", nparams |-> 5, sig |-> "JIZII_3F"],
    [name |-> "glGetHistogram", first |-> "long", array |-> "int", nparams |-> 5, sig |-> "JIZII_3I"],
    [name |-> "glGetHistogram", first |-> "long", array |-> "short", nparams |-> 5, sig |-> "JIZII_3S"],
    [name |-> "glGetHistogramParameterfv", first |-> "long", array |-> "float", nparams |-> 3, sig |-> "JII_3F"],
    [name |-> "glGetHistogramParameteriv", first |-> "long", array |-> "int", nparams |-> 3, sig |-> "JII_3I"],
    [name |-> "glGetMinmax", first |-> "long", array |-> "byte", nparams |-> 5, sig |-> "JIZII_3B"],
    [name |-> "glGetMinmax", first |-> "long", array |-> "float", nparams |-> 5, sig |-> "JIZII_3F"],
    [name |-> "glGetMinmax", first |-> "long", array |-> "int", nparams |-> 5, sig |-> "JIZII_3I"],
    [name |-> "glGetMinmax", first |-> "long", array |-> "short", nparams |-> 5, sig |-> "JIZII_3S"],
    [name |-> "glGetMinmaxParameterfv", first |-> "long", array |-> "float", nparams |-> 3, sig |-> "JII_3F"],
    [name |-> "glGetMinmaxParameteriv", first |-> "long", array |-> "int", nparams |-> 3, sig |-> "JII_3I"],
    [name |-> "glHistogram", first |-> "long", array |-> "", nparams |-> 4, sig |-> "JIIIZ"],
    [name |-> "glMinmax", first |-> "long", array |-> "", nparams |-> 3, sig |-> "JIIZ"],
    [name |-> "glResetHistogram", first |-> "long", array |-> "", nparams |-> 1, sig |-> "JI"],
    [name |-> "glResetMinmax", first |-> "long", array |-> "", nparams |-> 1, sig |-> "JI"],
    [name |-> "glTexImage3D", first |-> "long", array |-> "byte", nparams |-> 10, sig |-> "JIIIIIIIII_3B"],
    [name |-> "glTexImage3D", first |-> "long", array |-> "int", nparams |-> 10, sig |-> "JIIIIIIIII_3I"],
    [name |-> "glTexImage3D", first |-> "long", array |-> "short", nparams |-> 10, sig |-> "JIIIIIIIII_3S"],
    [name |-> "glTexSubImage3D", first |-> "long", array |-> "byte", nparams |-> 11, sig |-> "JIIIIIIIIII_3B"],
    [name |-> "glTexSubImage3D", first |-> "long", array |-> "int", nparams |-> 11, sig |-> "JIIIIIIIIII_3I"],
    [name |-> "glTexSubImage3D", first |-> "long", array |-> "short", nparams |-> 11, sig |-> "JIIIIIIIIII_3S"],
    [name |-> "glCopyTexSubImage3D", first |-> "long", array |-> "", nparams |-> 9, sig |-> "JIIIIIIIII"]>>

\* The exported name of an entry point, Java_edu_mines_jves_opengl_Gl_
\* followed by n for a handle entry point, the name and, after __, the
\* signature suffix: its three varying parts.
Exported(e) == <<e.decl = "JNI_GL_DECLARE2", e.name, e.sig>>

Entries == DOMAIN EntryPoints

\* The entry point declared with macro argument name__sig.
EntryOf(name, sig) ==
  CHOOSE i \in Entries : EntryPoints[i].name = name /\ EntryPoints[i].sig = sig

ArrayParamTypes == {"jbyteArray", "jshortArray", "jintArray", "jfloatArray",
                    "jdoubleArray", "jarray", "jobject"}

(***************************************************************************)
(* Bounds of the model.                                                    *)
(***************************************************************************)
MaxLen == 2      \* elements in each managed array
MaxCalls == 2    \* entry-point calls in one behaviour
MaxSalt == 1     \* variation of the scalar arguments of the table-wide calls
MaxSeq == 3      \* calls in one behaviour of the longer call sequences

(***************************************************************************)
(* Fixed-width integers.  A jint is an integer in -2^31 .. 2^31-1.  A       *)
(* native GLuint/GLenum/GLbitfield is a 32-bit pattern, kept as its two     *)
(* 16-bit halves.                                                           *)
(***************************************************************************)
U32(x) == [hi |-> (x \div 65536) % 65536, lo |-> x % 65536]

S32(u) == (IF u.hi >= 32768 THEN u.hi - 65536 ELSE u.hi) * 65536 + u.lo

U8(x) == x % 256

S8(u) == IF u >= 128 THEN u - 256 ELSE u

U16(x) == x % 65536

S16(u) == IF u >= 32768 THEN u - 65536 ELSE u

(***************************************************************************)
(* The caller's arrays.  Reference ids 1..10; the element type of each is   *)
(* fixed by its Java type.  Id 10 is a direct buffer of ints.               *)
(***************************************************************************)
ArrIds == 1 .. 10

ElemType(a) ==
  CASE a = 1 -> "byte"
    [] a \in {2, 3} -> "short"
    [] a \in {4, 5, 10} -> "int"
    [] a \in {6, 7} -> "float"
    [] OTHER -> "double"

\* What the native side sees of one managed element through a view of
\* type vt over an array of element type et.
ToNative(vt, et, x) ==
  CASE vt \in {"JuintArray", "JuintBuffer"} -> U32(x)
    [] vt = "JubyteArray" -> U8(x)
    [] vt = "JushortArray" -> U16(x)
    [] vt \in {"JvoidArray", "JvoidBuffer"} ->
         (CASE et = "byte" -> U8(x)
            [] et = "short" -> U16(x)
            [] et = "int" -> U32(x)
            [] OTHER -> x)
    [] OTHER -> x

\* What a managed element becomes when the native element u is committed.
FromNative(vt, et, u) ==
  CASE vt \in {"JuintArray", "JuintBuffer"} -> S32(u)
    [] vt = "JubyteArray" -> S8(u)
    [] vt = "JushortArray" -> S16(u)
    [] vt \in {"JvoidArray", "JvoidBuffer"} ->
         (CASE et = "byte" -> S8(u)
            [] et = "short" -> S16(u)
            [] et = "int" -> S32(u)
            [] OTHER -> u)
    [] OTHER -> u

\* A view local `J<type> v(env,jparam);`: the array it wraps and the native
\* memory its pointer conversion yields.
MakeView(vdecl, argv, hp) ==
  LET a == argv[vdecl.p]
  IN  [arr |-> a, t |-> vdecl.t,
       mem |-> [i \in DOMAIN hp[a] |-> ToNative(vdecl.t, ElemType(a), hp[a][i])]]

\* The destructor of a view: the native memory is committed to the array.
ReleaseView(v, hp) ==
  [hp EXCEPT ![v.arr] =
     [i \in DOMAIN v.mem |-> FromNative(v.t, ElemType(v.arr), v.mem[i])]]

\* Views are destroyed in the reverse of their declaration order.  done lists
\* the views released, in order.
RECURSIVE ReleaseAll(_, _, _)
ReleaseAll(vs, n, hp) ==
  IF n = 0 THEN [heap |-> hp, done |-> <<>>]
  ELSE LET r == ReleaseAll(vs, n - 1, ReleaseView(vs[n], hp))
       IN  [heap |-> r.heap, done |-> <<n>> \o r.done]

\* The binding clamps a negative scalar to zero before the call.
NativeArgs_clamped(e, argv) ==
  [i \in 1 .. Len(e.args) |->
     IF e.args[i].k = "view"
     THEN [ptr |-> e.args[i].i, val |-> 0]
     ELSE [ptr |-> 0, val |-> IF argv[e.args[i].i] < 0 THEN 0
                               ELSE argv[e.args[i].i]]]

\* The argument list of the native call, from the args column.
NativeArgs(e, argv) ==
  [i \in 1 .. Len(e.args) |->
     IF e.args[i].k = "view"
     THEN [ptr |-> e.args[i].i, val |-> 0]
     ELSE [ptr |-> 0, val |-> argv[e.args[i].i]]]

(***************************************************************************)
(* The native OpenGL library (GL/gl.h), as far as the calls below observe   *)
(* it.  Each function takes the library state st, the argument list a       *)
(* (scalars by value, pointers as view numbers), the memory m behind the    *)
(* pointers and an environment choice c, and yields the new state, the new  *)
(* memory, the result and whether the call faulted.                         *)
(***************************************************************************)
GL_FALSE == 0
GL_TRUE == 1
GL_NO_ERROR == 0
GL_INVALID_ENUM == 1280
GL_INVALID_VALUE == 1281
GL_COLOR_BUFFER_BIT == 16384
GL_DEPTH_BUFFER_BIT == 256
GL_BLEND == 3042
GL_TEXTURE_2D == 3553
GL_RENDER == 7168
GL_SELECT == 7170
GL_RENDER_MODE == 3136
GL_VENDOR == 7936
GL_RED == 6403
GL_UNSIGNED_BYTE == 5121
GL_UNSIGNED_SHORT == 5123
GL_UNSIGNED_INT == 5125
GL_PIXEL_MAP_I_TO_I == 3184
GL_FUNC_ADD == 32774
GL_MIN == 32775
GL_TRIANGLES == 4
GL_INT == 5124

Black == <<0, 0, 0, 0>>

\* The vendor strings of two drivers, as the bytes of their C strings.
Acme == <<65, 99, 109, 101>>
Mesa == <<77, 101, 115, 97>>

\* What a pointer kept by the library designates: nothing, the memory of a
\* direct buffer (the buffer's own, for as long as the caller keeps the
\* buffer), or the memory of the view of a managed array (the view's, until
\* the view is released).
NoAddress == [kind |-> "none", arr |-> 0]

BufferViews == {"JvoidBuffer", "JfloatBuffer", "JuintBuffer"}

Address(v) ==
  [kind |-> IF v.t \in BufferViews THEN "buffer" ELSE "view", arr |-> v.arr]

GlInit ==
  [clearColor |-> Black, fb |-> Black, err |-> GL_NO_ERROR, enabled |-> {},
   names |-> {}, bound |-> {}, lists |-> {}, renderMode |-> GL_RENDER,
   pixelMap |-> <<0>>, driver |-> Acme,
   blendColor |-> Black, blendEquation |-> GL_FUNC_ADD,
   stipple |-> [i \in 1 .. MaxLen |-> 255],
   vertexPointer |-> NoAddress, selectBuffer |-> NoAddress,
   deref |-> NoAddress,
   index |-> 1, lineStipple |-> <<1, 65535>>,
   stencilMask |-> U32(0 - 1), indexMask |-> U32(0 - 1)]

\* Results, typed as gl.h declares them.
Void == [t |-> "void", v |-> 0]
GLbooleanRes(b) == [t |-> "GLboolean", v |-> IF b THEN GL_TRUE ELSE GL_FALSE]
GLuintRes(u) == [t |-> "GLuint", v |-> u]
GLintRes(n) == [t |-> "GLint", v |-> n]
PtrRes(p) == [t |-> "ptr", v |-> p]

Done(st, m, r) == [gl |-> st, mem |-> m, res |-> r, fault |-> ""]

\* The library records the first error since the last glGetError.
SetError(st, code) ==
  IF st.err = GL_NO_ERROR THEN [st EXCEPT !.err = code] ELSE st

\* The texture and display-list names the library hands out, in order:
\* 1, 2^32-1, 2, 2^32-2, ...
NameAt(k) == IF k % 2 = 1 THEN U32((k + 1) \div 2) ELSE U32(0 - (k \div 2))

\* The n first names from position `from` on that are not in use.
RECURSIVE FreeNames(_, _, _)
FreeNames(used, n, from) ==
  IF n <= 0 THEN <<>>
  ELSE IF NameAt(from) \in used THEN FreeNames(used, n, from + 1)
  ELSE <<NameAt(from)>> \o FreeNames(used, n - 1, from + 1)

\* Writing the sequence w into the memory behind pointer p, from element 1.
\* Elements past the end of the memory are outside the view.
Poke(m, p, w) ==
  [m EXCEPT ![p].mem =
     [i \in DOMAIN m[p].mem |-> IF i <= Len(w) THEN w[i] ELSE m[p].mem[i]]]

\* A call that reads or writes cnt elements through pointer p runs past the
\* end of the memory; the environment choice c decides whether that faults.
Overrun(m, p, cnt) == cnt > Len(m[p].mem)

AfterOverrun(st, m, r, c) ==
  [gl |-> st, mem |-> m, res |-> r,
   fault |-> IF c.fault THEN "access violation" ELSE ""]

glClearColor(st, a, m, c) ==
  Done([st EXCEPT !.clearColor = <<a[1].val, a[2].val, a[3].val, a[4].val>>],
       m, Void)

glClear(st, a, m, c) ==
  IF (a[1].val \div GL_COLOR_BUFFER_BIT) % 2 = 1
  THEN Done([st EXCEPT !.fb = st.clearColor], m, Void)
  ELSE Done(st, m, Void)

glEnable(st, a, m, c) ==
  IF a[1].val = GL_BLEND
  THEN Done([st EXCEPT !.enabled = @ \cup {a[1].val}], m, Void)
  ELSE Done(SetError(st, GL_INVALID_ENUM), m, Void)

glDisable(st, a, m, c) ==
  IF a[1].val = GL_BLEND
  THEN Done([st EXCEPT !.enabled = @ \ {a[1].val}], m, Void)
  ELSE Done(SetError(st, GL_INVALID_ENUM), m, Void)

glIsEnabled(st, a, m, c) ==
  IF a[1].val = GL_BLEND
  THEN Done(st, m, GLbooleanRes(a[1].val \in st.enabled))
  ELSE Done(SetError(st, GL_INVALID_ENUM), m, GLbooleanRes(FALSE))

glGetError(st, a, m, c) ==
  Done([st EXCEPT !.err = GL_NO_ERROR], m, GLuintRes(U32(st.err)))

glGenLists(st, a, m, c) ==
  LET new == FreeNames(st.lists, 1, c.from)
  IN  IF a[1].val < 0
      THEN Done(SetError(st, GL_INVALID_VALUE), m, GLuintRes(U32(0)))
      ELSE IF a[1].val = 0 THEN Done(st, m, GLuintRes(U32(0)))
      ELSE Done([st EXCEPT !.lists = @ \cup {new[1]}], m, GLuintRes(new[1]))

glIsList(st, a, m, c) == Done(st, m, GLbooleanRes(U32(a[1].val) \in st.lists))

Take(s, n) == [i \in 1 .. (IF n < Len(s) THEN n ELSE Len(s)) |-> s[i]]

glGenTextures(st, a, m, c) ==
  LET n == a[1].val
      new == FreeNames(st.names, n, 1)
      st1 == [st EXCEPT !.names = @ \cup {new[i] : i \in DOMAIN new}]
  IN  IF n < 0 THEN Done(SetError(st, GL_INVALID_VALUE), m, Void)
      ELSE IF Overrun(m, a[2].ptr, n)
      THEN AfterOverrun(st1, Poke(m, a[2].ptr, new), Void, c)
      ELSE Done(st1, Poke(m, a[2].ptr, new), Void)

glBindTexture(st, a, m, c) ==
  LET u == U32(a[2].val)
  IN  IF a[1].val # GL_TEXTURE_2D
      THEN Done(SetError(st, GL_INVALID_ENUM), m, Void)
      ELSE IF u = U32(0) THEN Done(st, m, Void)
      ELSE Done([st EXCEPT !.names = @ \cup {u}, !.bound = @ \cup {u}], m, Void)

glDeleteTextures(st, a, m, c) ==
  LET n == a[1].val
      del == {m[a[2].ptr].mem[i] : i \in DOMAIN Take(m[a[2].ptr].mem, n)}
      st1 == [st EXCEPT !.names = @ \ del, !.bound = @ \ del]
  IN  IF n < 0 THEN Done(SetError(st, GL_INVALID_VALUE), m, Void)
      ELSE IF Overrun(m, a[2].ptr, n) THEN AfterOverrun(st1, m, Void, c)
      ELSE Done(st1, m, Void)

glIsTexture(st, a, m, c) == Done(st, m, GLbooleanRes(U32(a[1].val) \in st.bound))

\* The driver keeps the textures with 16-bit names resident.
Resident(u) == u.hi = 0

glAreTexturesResident(st, a, m, c) ==
  LET n == a[1].val
      tex == Take(m[a[2].ptr].mem, n)
      res == [i \in DOMAIN tex |-> IF Resident(tex[i]) THEN GL_TRUE ELSE GL_FALSE]
      over == Overrun(m, a[2].ptr, n) \/ Overrun(m, a[3].ptr, n)
      out(st1, m1, r) == IF over THEN AfterOverrun(st1, m1, r, c) ELSE Done(st1, m1, r)
  IN  IF n < 0 \/ \E i \in DOMAIN tex : tex[i] \notin st.bound
      THEN out(SetError(st, GL_INVALID_VALUE), m, GLbooleanRes(FALSE))
      ELSE IF \A i \in DOMAIN tex : Resident(tex[i])
      THEN out(st, m, GLbooleanRes(TRUE))
      ELSE out(st, Poke(m, a[3].ptr, res), GLbooleanRes(FALSE))

\* Leaving selection mode, the library writes the hit records through the
\* pointer glSelectBuffer gave it.
glRenderMode(st, a, m, c) ==
  IF a[1].val \in {GL_RENDER, GL_SELECT}
  THEN Done([st EXCEPT !.renderMode = a[1].val,
                       !.deref = IF st.renderMode = GL_SELECT
                                    /\ st.selectBuffer # NoAddress
                                 THEN st.selectBuffer ELSE @],
            m, GLintRes(IF st.renderMode = GL_SELECT THEN c.hits ELSE 0))
  ELSE Done(SetError(st, GL_INVALID_ENUM), m, GLintRes(0))

\* The library keeps the pointer; the vertices are read when they are drawn.
glVertexPointer(st, a, m, c) ==
  IF a[1].val \notin {2, 3, 4}
  THEN Done(SetError(st, GL_INVALID_VALUE), m, Void)
  ELSE Done([st EXCEPT !.vertexPointer = Address(m[a[4].ptr])], m, Void)

glSelectBuffer(st, a, m, c) ==
  IF a[1].val < 0 THEN Done(SetError(st, GL_INVALID_VALUE), m, Void)
  ELSE Done([st EXCEPT !.selectBuffer = Address(m[a[2].ptr])], m, Void)

\* The vertices are read through the pointer glVertexPointer gave.
glDrawArrays(st, a, m, c) ==
  IF a[3].val < 0 THEN Done(SetError(st, GL_INVALID_VALUE), m, Void)
  ELSE IF st.vertexPointer = NoAddress THEN Done(st, m, Void)
  ELSE Done([st EXCEPT !.deref = st.vertexPointer], m, Void)

\* The string the library returns is a pointer into the driver's storage.
glGetString(st, a, m, c) ==
  IF a[1].val = GL_VENDOR THEN Done(st, m, PtrRes(GL_VENDOR))
  ELSE Done(SetError(st, GL_INVALID_ENUM), m, PtrRes(0))

glGetIntegerv(st, a, m, c) ==
  IF a[1].val = GL_RENDER_MODE
  THEN Done(st, Poke(m, a[2].ptr, <<st.renderMode>>), Void)
  ELSE Done(SetError(st, GL_INVALID_ENUM), m, Void)

\* One colour component in [0,1] as the unsigned integer of the given type.
Component(x, type) ==
  CASE type = GL_UNSIGNED_BYTE -> x * 255
    [] type = GL_UNSIGNED_SHORT -> x * 65535
    [] OTHER -> IF x = 1 THEN U32(-1) ELSE U32(0)

glReadPixels(st, a, m, c) ==
  LET cnt == a[3].val * a[4].val
      px == [i \in 1 .. cnt |-> Component(st.fb[1], a[6].val)]
  IN  IF a[3].val < 0 \/ a[4].val < 0
      THEN Done(SetError(st, GL_INVALID_VALUE), m, Void)
      ELSE IF a[5].val # GL_RED \/ a[6].val \notin
                {GL_UNSIGNED_BYTE, GL_UNSIGNED_SHORT, GL_UNSIGNED_INT}
      THEN Done(SetError(st, GL_INVALID_ENUM), m, Void)
      ELSE IF Overrun(m, a[7].ptr, cnt)
      THEN AfterOverrun(st, Poke(m, a[7].ptr, px), Void, c)
      ELSE Done(st, Poke(m, a[7].ptr, px), Void)

glPixelMapusv(st, a, m, c) ==
  LET n == a[2].val
      st1 == [st EXCEPT !.pixelMap = Take(m[a[3].ptr].mem, n)]
  IN  IF a[1].val # GL_PIXEL_MAP_I_TO_I
      THEN Done(SetError(st, GL_INVALID_ENUM), m, Void)
      ELSE IF n < 1 THEN Done(SetError(st, GL_INVALID_VALUE), m, Void)
      ELSE IF Overrun(m, a[3].ptr, n) THEN AfterOverrun(st1, m, Void, c)
      ELSE Done(st1, m, Void)

glGetPixelMapusv(st, a, m, c) ==
  IF a[1].val # GL_PIXEL_MAP_I_TO_I
  THEN Done(SetError(st, GL_INVALID_ENUM), m, Void)
  ELSE IF Overrun(m, a[2].ptr, Len(st.pixelMap))
  THEN AfterOverrun(st, Poke(m, a[2].ptr, st.pixelMap), Void, c)
  ELSE Done(st, Poke(m, a[2].ptr, st.pixelMap), Void)

glBlendColor(st, a, m, c) ==
  Done([st EXCEPT !.blendColor = <<a[1].val, a[2].val, a[3].val, a[4].val>>],
       m, Void)

glBlendEquation(st, a, m, c) ==
  IF a[1].val \in {GL_FUNC_ADD, GL_MIN}
  THEN Done([st EXCEPT !.blendEquation = a[1].val], m, Void)
  ELSE Done(SetError(st, GL_INVALID_ENUM), m, Void)

\* The stipple pattern (32 x 32 bits in gl.h, here as many bytes as the
\* caller's arrays hold) is written through the pointer; initially every
\* bit of it is set.
glGetPolygonStipple(st, a, m, c) ==
  Done(st, Poke(m, a[1].ptr, st.stipple), Void)

\* void glIndexub(GLubyte c): the parameter holds the argument converted
\* to an unsigned 8-bit integer.
glIndexub(st, a, m, c) == Done([st EXCEPT !.index = U8(a[1].val)], m, Void)

\* void glLineStipple(GLint factor, GLushort pattern).
glLineStipple(st, a, m, c) ==
  Done([st EXCEPT !.lineStipple = <<a[1].val, U16(a[2].val)>>], m, Void)

\* void glStencilMask(GLuint mask).
glStencilMask(st, a, m, c) ==
  Done([st EXCEPT !.stencilMask = U32(a[1].val)], m, Void)

\* void glIndexMask(GLuint mask).
glIndexMask(st, a, m, c) ==
  Done([st EXCEPT !.indexMask = U32(a[1].val)], m, Void)

\* The functions the model gives a meaning to.
Interpreted ==
  {"glClearColor", "glClear", "glEnable", "glDisable", "glIsEnabled",
   "glGetError", "glGenLists", "glIsList", "glGenTextures", "glBindTexture",
   "glDeleteTextures", "glIsTexture", "glAreTexturesResident", "glRenderMode",
   "glGetString", "glGetIntegerv", "glReadPixels", "glPixelMapusv",
   "glGetPixelMapusv", "glBlendColor", "glBlendEquation",
   "glGetPolygonStipple", "glVertexPointer", "glSelectBuffer", "glDrawArrays",
   "glIndexub", "glLineStipple", "glStencilMask", "glIndexMask"}

\* The functions of gl.h that write through their last pointer parameter.
OutputFns ==
  {"glAreTexturesResident", "glGenTextures", "glReadPixels", "glGetBooleanv",
   "glGetClipPlane", "glGetDoublev", "glGetFloatv", "glGetIntegerv",
   "glGetLightfv", "glGetLightiv", "glGetMapdv", "glGetMapfv", "glGetMapiv",
   "glGetMaterialfv", "glGetMaterialiv", "glGetPixelMapfv", "glGetPixelMapuiv",
   "glGetPixelMapusv", "glGetPolygonStipple", "glGetTexEnvfv", "glGetTexEnviv",
   "glGetTexGendv", "glGetTexGenfv", "glGetTexGeniv", "glGetTexImage",
   "glGetTexLevelParameterfv", "glGetTexLevelParameteriv",
   "glGetTexParameterfv", "glGetTexParameteriv"}

\* The largest value of the element type behind a pointer (all bits set for
\* the integer types).
Top(v) ==
  CASE v.t \in {"JuintArray", "JuintBuffer"} -> U32(0 - 1)
    [] v.t = "JubyteArray" -> 255
    [] v.t = "JushortArray" -> 65535
    [] v.t \in {"JvoidArray", "JvoidBuffer"} ->
         (CASE ElemType(v.arr) = "byte" -> 255
            [] ElemType(v.arr) = "short" -> 65535
            [] ElemType(v.arr) = "int" -> U32(0 - 1)
            [] OTHER -> 0 - 1)
    [] OTHER -> 0 - 1

\* Any other function.  The result type is that of gl.h.  Of the effect only
\* this is kept: an output function may write (here: the largest value, into
\* the first element) through its last pointer argument, and any function
\* may fault.
Uninterpreted(fn, st, a, m, c) ==
  LET ptrs == {i \in DOMAIN a : a[i].ptr # 0}
      lastp == CHOOSE i \in ptrs : \A j \in ptrs : j <= i
      m1 == IF c.write /\ fn \in OutputFns /\ ptrs # {}
            THEN Poke(m, a[lastp].ptr, <<Top(m[a[lastp].ptr])>>) ELSE m
  IN  [gl |-> st, mem |-> m1,
       res |-> CASE fn \in {"glIsEnabled", "glIsList", "glIsTexture",
                            "glAreTexturesResident"} -> GLbooleanRes(FALSE)
                 [] fn \in {"glGenLists", "glGetError"} -> GLuintRes(U32(0))
                 [] fn = "glRenderMode" -> GLintRes(0)
                 [] fn = "glGetString" -> PtrRes(GL_VENDOR)
                 [] OTHER -> Void,
       fault |-> IF c.fault THEN "access violation" ELSE ""]

Native(interp, fn, st, a, m, c) ==
  IF ~interp THEN Uninterpreted(fn, st, a, m, c)
  ELSE CASE fn = "glClearColor" -> glClearColor(st, a, m, c)
    [] fn = "glClear" -> glClear(st, a, m, c)
    [] fn = "glEnable" -> glEnable(st, a, m, c)
    [] fn = "glDisable" -> glDisable(st, a, m, c)
    [] fn = "glIsEnabled" -> glIsEnabled(st, a, m, c)
    [] fn = "glGetError" -> glGetError(st, a, m, c)
    [] fn = "glGenLists" -> glGenLists(st, a, m, c)
    [] fn = "glIsList" -> glIsList(st, a, m, c)
    [] fn = "glGenTextures" -> glGenTextures(st, a, m, c)
    [] fn = "glBindTexture" -> glBindTexture(st, a, m, c)
    [] fn = "glDeleteTextures" -> glDeleteTextures(st, a, m, c)
    [] fn = "glIsTexture" -> glIsTexture(st, a, m, c)
    [] fn = "glAreTexturesResident" -> glAreTexturesResident(st, a, m, c)
    [] fn = "glRenderMode" -> glRenderMode(st, a, m, c)
    [] fn = "glGetString" -> glGetString(st, a, m, c)
    [] fn = "glGetIntegerv" -> glGetIntegerv(st, a, m, c)
    [] fn = "glReadPixels" -> glReadPixels(st, a, m, c)
    [] fn = "glPixelMapusv" -> glPixelMapusv(st, a, m, c)
    [] fn = "glGetPixelMapusv" -> glGetPixelMapusv(st, a, m, c)
    [] fn = "glBlendColor" -> glBlendColor(st, a, m, c)
    [] fn = "glBlendEquation" -> glBlendEquation(st, a, m, c)
    [] fn = "glGetPolygonStipple" -> glGetPolygonStipple(st, a, m, c)
    [] fn = "glVertexPointer" -> glVertexPointer(st, a, m, c)
    [] fn = "glSelectBuffer" -> glSelectBuffer(st, a, m, c)
    [] fn = "glDrawArrays" -> glDrawArrays(st, a, m, c)
    [] fn = "glIndexub" -> glIndexub(st, a, m, c)
    [] fn = "glLineStipple" -> glLineStipple(st, a, m, c)
    [] fn = "glStencilMask" -> glStencilMask(st, a, m, c)
    [] fn = "glIndexMask" -> glIndexMask(st, a, m, c)
    [] OTHER -> Uninterpreted(fn, st, a, m, c)

(***************************************************************************)
(* One entry-point call.                                                   *)
(***************************************************************************)
JNI_FALSE == 0
JNI_TRUE == 1

\* Values as the Java caller sees them.
NoValue == [t |-> "void", v |-> 0, chars |-> <<>>, addr |-> 0]
JBoolean(b) == [t |-> "jboolean", v |-> b, chars |-> <<>>, addr |-> 0]
JInt(n) == [t |-> "jint", v |-> n, chars |-> <<>>, addr |-> 0]

\* The null reference.
JNull == [t |-> "null", v |-> 0, chars |-> <<>>, addr |-> 0]

\* The bytes of the C string behind a native string pointer.
StringAt(st, p) == IF p = GL_VENDOR THEN st.driver ELSE <<>>

\* The characters that a sequence of modified-UTF-8 bytes encodes: a byte
\* below 128 is one character, 110xxxxx 10xxxxxx is one character.
RECURSIVE Utf8(_)
Utf8(b) ==
  IF b = <<>> THEN <<>>
  ELSE IF b[1] < 128 \/ Len(b) = 1 THEN <<b[1]>> \o Utf8(Tail(b))
  ELSE <<(b[1] % 32) * 64 + (b[2] % 64)>> \o Utf8(Tail(Tail(b)))

\* A string object that keeps the native pointer instead of the characters.
NewStringUTF_alias(st, p) ==
  [t |-> "jstring", v |-> 0, chars |-> <<>>, addr |-> p]

\* env->NewStringUTF(p): a new java.lang.String holding the characters found
\* at p when it is called.  Given the null pointer, a runtime that does not
\* read through it has no string to build and returns the null reference.
NewStringUTF(st, p) ==
  IF p = 0 THEN JNull
  ELSE [t |-> "jstring", v |-> 0, chars |-> Utf8(StringAt(st, p)), addr |-> 0]

\* The return statement of the body, given what the native call left.  In
\* return env->NewStringUTF((const char*)glGetString(name)) the pointer goes
\* to NewStringUTF untested; a null pointer is outside what NewStringUTF is
\* specified for, and a runtime that reads through it faults (c.fault).
ReturnStatement(e, nat, c) ==
  IF e.ret = "NewStringUTF" /\ nat.fault = "" /\ nat.res.v = 0 /\ c.fault
  THEN [nat EXCEPT !.fault = "null pointer read"]
  ELSE nat

\* The characters of a Java string value read while the library is in st.
CharsOf(s, st) == IF s.addr = 0 THEN s.chars ELSE Utf8(StringAt(st, s.addr))

\* return (f(...)==GL_TRUE) ? JNI_FALSE : JNI_TRUE;
RetBoolean_inverted(res) == JBoolean(IF res.v = GL_TRUE THEN JNI_FALSE ELSE JNI_TRUE)

\* return (f(...)==GL_TRUE) ? JNI_TRUE : JNI_FALSE;
RetBoolean(res) == JBoolean(IF res.v = GL_TRUE THEN JNI_TRUE ELSE JNI_FALSE)

\* The result clamped to the jint range instead of converted.
RetValue_clamped(res) ==
  JInt(IF res.t = "GLuint"
       THEN (IF res.v.hi >= 32768 THEN 2147483647 ELSE S32(res.v))
       ELSE res.v)

\* return f(...); in a function declared to return jint.
RetValue(res) == JInt(IF res.t = "GLuint" THEN S32(res.v) ELSE res.v)

RetMap(e, res, st) ==
  CASE e.ret = "eqGL_TRUE" -> RetBoolean(res)
    [] e.ret = "value" -> RetValue(res)
    [] e.ret = "NewStringUTF" -> NewStringUTF(st, res.v)
    [] OTHER -> NoValue

\* Control reaches the closing brace of JNI_GL_END without a return
\* statement, as it does after JNI_CATCH: a function declared void returns
\* nothing, a function declared to return a value returns whatever the
\* return register holds.
FallOff(e, c) ==
  CASE e.rtype = "jint" -> JInt(c.junk)
    [] e.rtype = "jboolean" -> JBoolean(c.junk)
    [] e.rtype = "jstring" ->
         IF c.junk = 0 THEN JNull
         ELSE [t |-> "jstring", v |-> 0, chars |-> <<>>, addr |-> c.junk]
    [] OTHER -> NoValue

\* JNI_GL_DECLARE2 declares the leading jlong pfunc.
Handle(e) == e.decl = "JNI_GL_DECLARE2"

\* JNI_GL_BEGIN2 without its JNI_TRY.
JNI_GL_BEGIN_no2(e) == e.begin \in {"JNI_GL_BEGIN0", "JNI_GL_BEGIN1"}

\* JNI_GL_BEGIN1 without its JNI_TRY.
JNI_GL_BEGIN_no1(e) == e.begin \in {"JNI_GL_BEGIN0", "JNI_GL_BEGIN2"}

\* JNI_GL_BEGIN0, JNI_GL_BEGIN1 and JNI_GL_BEGIN2 all open the body with
\* JNI_TRY: the body of e runs inside the try block.
JNI_GL_BEGIN(e) == e.begin \in {"JNI_GL_BEGIN0", "JNI_GL_BEGIN1", "JNI_GL_BEGIN2"}

\* Function addresses as the caller resolves them for the handle entries.
ExtProcs == <<"glBlendColor", "glBlendEquation", "glDrawRangeElements">>

ProcAddress(fn) == 4096 * (CHOOSE i \in DOMAIN ExtProcs : ExtProcs[i] = fn)

\* (*(PFN...PROC)toPointer(pfunc)): the function found at the address.
toPointer(h) ==
  IF h % 4096 = 0 /\ (h \div 4096) \in DOMAIN ExtProcs
  THEN ExtProcs[h \div 4096] ELSE "invalid"

\* The binding resolves the function from the entry point's name and
\* ignores the handle.
Callee_byName(e, h) == e.native

\* The binding keeps the handle of the previous call of a handle entry
\* point and uses it again.
Callee_cached(e, h) ==
  IF ~Handle(e) THEN e.native
  ELSE IF last.entry # 0 /\ Handle(EntryPoints[last.entry])
  THEN toPointer(last.handle) ELSE toPointer(h)

\* The function an entry point calls: the one its body names or, in a
\* handle entry point, the one at the address in pfunc.
Callee(e, h) == IF Handle(e) THEN toPointer(h) ELSE e.native

\* The number of parameters of the functions behind handles.
ExtArity(fn) ==
  CASE fn = "glBlendColor" -> 4
    [] fn = "glBlendEquation" -> 1
    [] fn = "glDrawRangeElements" -> 6
    [] OTHER -> 0

\* What a function finds in its parameters when it is called through a
\* pointer cast to another function's type: values the call did not put
\* there (c.hits stands for them).
Reinterpreted(fn, a, c) == [i \in 1 .. ExtArity(fn) |-> [ptr |-> 0, val |-> c.hits]]

\* The binding compares the element count of glDrawElements with the
\* length of the array and refuses the call when it is larger.
Validate_count(e, argv, hp) ==
  e.name = "glDrawElements" => argv[2] <= Len(hp[argv[4]])

\* The binding refuses a capability it does not know.
Validate_enum(e, argv, hp) ==
  e.name \in {"glEnable", "glDisable", "glIsEnabled"} => argv[1] = GL_BLEND

\* The checks an entry point makes on its arguments before the native
\* call: none.
Validate(e, argv, hp) == TRUE

\* The environment's part in one call: acq > 0 makes the acquisition of
\* view number acq fault; fault makes an overrun of a view (or, of an
\* uninterpreted function, the call) fault; write makes an uninterpreted
\* output function write; from and hits are the library's own choices (a
\* free name, a hit count);
\* junk is what the caller of a function finds as its return value when
\* the function ended without a return statement.
NoChoice ==
  [acq |-> 0, fault |-> FALSE, write |-> FALSE, from |-> 1, hits |-> 0,
   junk |-> 0]

Ev(ev, k) == [ev |-> ev, k |-> k]

\* Views that are not destroyed when the block is left.
ScopeExit_kept(vs, n, hp) == [heap |-> hp, done |-> <<>>]

Unwind_kept(vs, n, hp) == [heap |-> hp, done |-> <<>>]

\* The closing brace of the try block on the normal path: the view locals
\* are destroyed, last declared first.
ScopeExit(vs, n, hp) == ReleaseAll(vs, n, hp)

\* The same locals when a fault leaves the try block.
Unwind(vs, n, hp) == ReleaseAll(vs, n, hp)

\* JNI_CATCH: the fault becomes one java.lang.RuntimeException carrying its
\* description.
JNI_CATCH(fault) == [cls |-> "java.lang.RuntimeException", msg |-> fault, n |-> 1]

NoThrow == [cls |-> "", msg |-> "", n |-> 0]

\* A fault outside any try block leaves the function as it is.
Escaped(fault) == [cls |-> "native", msg |-> fault, n |-> 0]

\* The binding puts the library back where it was before the call.
Recover_rollback(e, st, left) == st

\* What JNI_GL_END does to the library after a fault was caught, the
\* library having been st before the call and left behind by the native
\* function as `left`: nothing, no statement follows JNI_CATCH.
Recover(e, st, left) == left

\* JNI_GL_END after the body left with `fault` ("" when it completed).
JNI_GL_END(e, fault) ==
  IF fault = "" THEN NoThrow
  ELSE IF JNI_GL_BEGIN(e) THEN JNI_CATCH(fault)
  ELSE Escaped(fault)

\* The body of entry point e called with handle h and arguments argv while
\* the library is in st and the caller's arrays are hp.
Run(interp, e, h, argv, st, hp, c) ==
  LET nv == Len(e.views)
      got == IF c.acq = 0 \/ c.acq > nv THEN nv ELSE c.acq - 1
      acqFault == c.acq > 0 /\ c.acq <= nv
      vs == [k \in 1 .. got |-> MakeView(e.views[k], argv, hp)]
      fn == Callee(e, h)
      a == NativeArgs(e, argv)
      refused == ~acqFault /\ ~Validate(e, argv, hp)
      Result(nat, out, thrown) ==
        [gl |-> IF nat.fault = "" THEN nat.gl ELSE Recover(e, st, nat.gl),
         heap |-> out.heap,
         views |-> {[arr |-> vs[k].arr, t |-> vs[k].t] :
                      k \in (1 .. got) \ {out.done[j] : j \in DOMAIN out.done}},
         thrown |-> thrown,
         ret |-> IF nat.fault = "" THEN RetMap(e, nat.res, nat.gl) ELSE NoValue,
         returned |-> IF nat.fault = "" THEN RetMap(e, nat.res, nat.gl)
                      ELSE FallOff(e, c),
         calls |-> IF acqFault \/ refused THEN <<>> ELSE <<[fn |-> fn, a |-> a]>>,
         vin |-> vs, vout |-> nat.mem, res |-> nat.res, fault |-> nat.fault,
         events |-> [k \in 1 .. got |-> Ev("acquire", k)]
                    \o (IF acqFault \/ refused THEN <<>> ELSE <<Ev("native", 0)>>)
                    \o [j \in DOMAIN out.done |-> Ev("release", out.done[j])]
                    \o (IF thrown.n > 0 THEN <<Ev("throw", 0)>> ELSE <<>>)]
      Leave(nat) ==
        Result(nat,
               IF nat.fault = "" THEN ScopeExit(nat.mem, got, hp)
               ELSE Unwind(nat.mem, got, hp),
               JNI_GL_END(e, nat.fault))
  IN  Leave(ReturnStatement(e,
              IF acqFault
              THEN [gl |-> st, mem |-> vs, res |-> Void, fault |-> "view"]
              ELSE IF refused
              THEN [gl |-> st, mem |-> vs, res |-> Void, fault |-> "illegal argument"]
              ELSE Native(interp, fn, st,
                          IF fn = e.native THEN a ELSE Reinterpreted(fn, a, c),
                          vs, c),
              c))

(***************************************************************************)
(* The same call made on the native library directly: the function of the   *)
(* entry point's name, the caller's scalars by value and, for each array,   *)
(* a native array of the element type gl.h declares holding the same        *)
(* elements.                                                                *)
(***************************************************************************)
CElem(fn, i) ==
  CASE fn \in {"glGenTextures", "glDeleteTextures"} -> "GLuint"
    [] fn = "glAreTexturesResident" -> IF i = 2 THEN "GLuint" ELSE "GLubyte"
    [] fn \in {"glPixelMapusv", "glGetPixelMapusv"} -> "GLushort"
    [] fn = "glReadPixels" -> "void"
    [] OTHER -> "same"

AsC(ct, et, x) ==
  CASE ct = "GLuint" -> U32(x)
    [] ct = "GLubyte" -> U8(x)
    [] ct = "GLushort" -> U16(x)
    [] ct = "void" -> (CASE et = "byte" -> U8(x)
                         [] et = "short" -> U16(x)
                         [] et = "int" -> U32(x)
                         [] OTHER -> x)
    [] OTHER -> x

Direct(interp, e, argv, st, hp, c) ==
  LET ps == DOMAIN e.params
      arrs == {i \in ps : e.params[i] \in ArrayParamTypes}
      m == [i \in arrs |->
              [arr |-> argv[i], t |-> CElem(e.name, i),
               mem |-> [j \in DOMAIN hp[argv[i]] |->
                          AsC(CElem(e.name, i), ElemType(argv[i]), hp[argv[i]][j])]]]
      a == [i \in ps |-> IF i \in arrs THEN [ptr |-> i, val |-> 0]
                                       ELSE [ptr |-> 0, val |-> argv[i]]]
  IN  Native(interp, e.name, st, a, m, c)

(***************************************************************************)
(* State.                                                                  *)
(***************************************************************************)
NoCall ==
  [entry |-> 0, handle |-> 0, argv |-> <<>>, pre |-> <<>>, thrown |-> NoThrow,
   ret |-> NoValue, calls |-> <<>>, vin |-> <<>>, vout |-> <<>>,
   events |-> <<>>, res |-> Void, fault |-> "", direct |-> Void,
   dbytes |-> <<>>, faulted |-> FALSE, pgl |-> GlInit,
   before |-> [entry |-> 0, handle |-> 0], method |-> 0, env |-> NoChoice,
   returned |-> NoValue]

NoString == [s |-> NoValue, snap |-> <<>>]

\* The threads of the caller.  Each has its own current context (gl); pc is
\* where the thread is in an entry point: "idle" outside, "begun" between
\* JNI_GL_BEGIN and the native call, "native" inside the native function,
\* "ended" between the native function's return and JNI_GL_END.  on is the
\* thread the native function runs on, n the number of entry points the
\* thread has returned from, nat the number of native calls it has seen
\* return or fault.
Threads == {"t1", "t2"}

Idle ==
  [pc |-> "idle", entry |-> 0, argv |-> <<>>, on |-> "", gl |-> GlInit,
   ret |-> NoValue, thrown |-> NoThrow, n |-> 0, nat |-> 0]

Init ==
  /\ gl = GlInit
  /\ refgl = GlInit
  /\ heap = [a \in ArrIds |->
               [i \in 1 .. MaxLen |-> IF (a + i) % 2 = 1 THEN 1 ELSE 0 - 1]]
  /\ views = {}
  /\ last = NoCall
  /\ held = NoString
  /\ alive = TRUE
  /\ clean = TRUE
  /\ ncalls = 0
  /\ thr = [t \in Threads |-> Idle]

\* The caller invokes entry point number i with handle h and arguments argv.
Call(interp, i, h, argv, c) ==
  \E out \in {Run(interp, EntryPoints[i], h, argv, gl, heap, c)} :
  \E dir \in {Direct(interp, EntryPoints[i], argv, refgl, heap, c)} :
      /\ alive
      /\ gl' = out.gl
      /\ heap' = out.heap
      /\ views' = out.views
      /\ refgl' = IF out.calls # <<>> THEN dir.gl ELSE refgl
      /\ last' = [entry |-> i, handle |-> h, argv |-> argv, pre |-> heap,
                  thrown |-> out.thrown, ret |-> out.ret, calls |-> out.calls,
                  vin |-> out.vin, vout |-> out.vout, events |-> out.events,
                  res |-> out.res, fault |-> out.fault, direct |-> dir.res,
                  dbytes |-> IF dir.res.t = "ptr" THEN StringAt(dir.gl, dir.res.v)
                                                  ELSE <<>>,
                  faulted |-> ~clean, pgl |-> gl,
                  before |-> [entry |-> last.entry, handle |-> last.handle],
                  method |-> 0, env |-> c, returned |-> out.returned]
      /\ held' = IF out.ret.t = "jstring" /\ held = NoString
                 THEN [s |-> out.ret, snap |-> StringAt(out.gl, out.res.v)]
                 ELSE held
      /\ alive' = (out.thrown.cls # "native")
      /\ clean' = (clean /\ out.thrown = NoThrow)
      /\ thr' = thr

(***************************************************************************)
(* The calls of the model.  Every Java_<name> action is one call of the     *)
(* entry point of that name from the Java caller, with its arguments drawn  *)
(* from a small set.                                                        *)
(***************************************************************************)
\* A behaviour makes at most MaxCalls calls.
Budget == ncalls < MaxCalls

Step(name, sig, argv, c) ==
  /\ ncalls' = ncalls + 1
  /\ Call(TRUE, EntryOf(name, sig), 0, argv, c)

\* The environment's choices: the acquisition of one of the nv views may
\* fault; a call that overruns a view may fault in the library.
AcquireFaults(nv) == {[NoChoice EXCEPT !.acq = k] : k \in 0 .. nv}

OverrunFaults(over) ==
  {[NoChoice EXCEPT !.fault = f] : f \in (IF over THEN BOOLEAN ELSE {FALSE})}

Red == <<1, 0, 0, 1>>
Blue == <<0, 0, 1, 1>>

Java_glClearColor ==
  /\ Budget
  /\ \E col \in {Red, Blue} : Step("glClearColor", "", col, NoChoice)

Java_glClear ==
  /\ Budget
  /\ \E mask \in {GL_COLOR_BUFFER_BIT, GL_DEPTH_BUFFER_BIT} :
       Step("glClear", "", <<mask>>, NoChoice)

Java_glEnable ==
  /\ Budget
  /\ \E cap \in {GL_BLEND, 0} : Step("glEnable", "", <<cap>>, NoChoice)

Java_glDisable ==
  /\ Budget
  /\ Step("glDisable", "", <<GL_BLEND>>, NoChoice)

Java_glIsEnabled ==
  /\ Budget
  /\ Step("glIsEnabled", "", <<GL_BLEND>>, NoChoice)

Java_glGetError ==
  /\ Budget
  /\ Step("glGetError", "", <<>>, NoChoice)

Java_glGenLists ==
  /\ Budget
  /\ \E from \in {1, 2} : Step("glGenLists", "", <<1>>, [NoChoice EXCEPT !.from = from])

Java_glIsList ==
  /\ Budget
  /\ \E list \in {1, 0 - 1} : Step("glIsList", "", <<list>>, NoChoice)

Java_glGenTextures ==
  /\ Budget
  /\ \E n \in {1, MaxLen, MaxLen + 1} :
       \E c \in (IF n > MaxLen THEN OverrunFaults(TRUE) ELSE AcquireFaults(1)) :
         Step("glGenTextures", "", <<n, 5>>, c)

Java_glBindTexture ==
  /\ Budget
  /\ \E texture \in {1, 0 - 1} : Step("glBindTexture", "", <<GL_TEXTURE_2D, texture>>, NoChoice)

Java_glDeleteTextures ==
  /\ Budget
  /\ \E n \in {1, MaxLen} : Step("glDeleteTextures", "", <<n, 4>>, NoChoice)

Java_glIsTexture ==
  /\ Budget
  /\ \E texture \in {1, 0 - 1} : Step("glIsTexture", "", <<texture>>, NoChoice)

Java_glAreTexturesResident ==
  /\ Budget
  /\ \E n \in {1, MaxLen} : \E textures \in {4, 5} :
       \E c \in (IF n = 1 THEN AcquireFaults(2) ELSE {NoChoice}) :
         Step("glAreTexturesResident", "", <<n, textures, 1>>, c)

Java_glRenderMode ==
  /\ Budget
  /\ \E mode \in {GL_RENDER, GL_SELECT} :
       \E hits \in (IF gl.renderMode = GL_SELECT THEN {0 - 1, 2} ELSE {0}) :
         Step("glRenderMode", "", <<mode>>, [NoChoice EXCEPT !.hits = hits])

Java_glGetString ==
  /\ Budget
  /\ \E name \in {GL_VENDOR, 0} : \E c \in OverrunFaults(name # GL_VENDOR) :
       Step("glGetString", "", <<name>>, c)

Java_glGetIntegerv ==
  /\ Budget
  /\ \E c \in AcquireFaults(1) : Step("glGetIntegerv", "", <<GL_RENDER_MODE, 5>>, c)

Java_glReadPixels_3B ==
  /\ Budget
  /\ \E w \in {1, MaxLen + 1} : \E c \in OverrunFaults(w > MaxLen) :
       Step("glReadPixels", "IIIIII_3B", <<0, 0, w, 1, GL_RED, GL_UNSIGNED_BYTE, 1>>, c)

Java_glReadPixels_3S ==
  /\ Budget
  /\ \E w \in {1, MaxLen + 1} : \E c \in OverrunFaults(w > MaxLen) :
       Step("glReadPixels", "IIIIII_3S", <<0, 0, w, 1, GL_RED, GL_UNSIGNED_SHORT, 2>>, c)

Java_glReadPixels_3I ==
  /\ Budget
  /\ \E w \in {1, MaxLen + 1} : \E c \in OverrunFaults(w > MaxLen) :
       Step("glReadPixels", "IIIIII_3I", <<0, 0, w, 1, GL_RED, GL_UNSIGNED_INT, 5>>, c)

Java_glPixelMapusv ==
  /\ Budget
  /\ \E n \in {0, 1, MaxLen} :
       Step("glPixelMapusv", "", <<GL_PIXEL_MAP_I_TO_I, n, 2>>, NoChoice)

Java_glGetPixelMapusv ==
  /\ Budget
  /\ Step("glGetPixelMapusv", "", <<GL_PIXEL_MAP_I_TO_I, 3>>, NoChoice)

Java_glGetPolygonStipple ==
  /\ Budget
  /\ Step("glGetPolygonStipple", "", <<1>>, NoChoice)

\* Another context, of another driver, becomes current: the library's
\* strings are now that driver's.
DriverChange ==
  /\ gl.driver = Acme
  /\ gl' = [gl EXCEPT !.driver = Mesa]
  /\ refgl' = [refgl EXCEPT !.driver = Mesa]
  /\ UNCHANGED <<heap, views, last, held, alive, clean, ncalls, thr>>

Next ==
  \/ Java_glClearColor \/ Java_glClear
  \/ Java_glEnable \/ Java_glDisable \/ Java_glIsEnabled \/ Java_glGetError
  \/ Java_glGenLists \/ Java_glIsList
  \/ Java_glGenTextures \/ Java_glBindTexture \/ Java_glDeleteTextures
  \/ Java_glIsTexture \/ Java_glAreTexturesResident
  \/ Java_glRenderMode \/ Java_glGetString \/ Java_glGetIntegerv
  \/ Java_glReadPixels_3B \/ Java_glReadPixels_3S \/ Java_glReadPixels_3I
  \/ Java_glPixelMapusv \/ Java_glGetPixelMapusv
  \/ Java_glGetPolygonStipple
  \/ DriverChange

Spec == Init /\ [][Next]_vars

(***************************************************************************)
(* Every entry point of the file, called as the first call of a behaviour   *)
(* with the native functions left uninterpreted.  The scalar at position i  *)
(* is i + 11 * salt; each array parameter gets an array of its Java type;    *)
(* the handle is the address of the function of the entry point's name.     *)
(***************************************************************************)
Sig3B == {"II_3B", "III_3B", "IIII_3B", "IIIII_3B", "IIIIII_3B", "IIIIIII_3B", "IIIIIIII_3B"}
Sig3S == {"II_3S", "III_3S", "IIII_3S", "IIIII_3S", "IIIIII_3S", "IIIIIII_3S", "IIIIIIII_3S"}
Sig3I == {"II_3I", "III_3I", "IIII_3I", "IIIII_3I", "IIIIII_3I", "IIIIIII_3I", "IIIIIIII_3I"}

ArgArray(e, i) ==
  LET t == e.params[i]
      second == \E j \in 1 .. (i - 1) : e.params[j] = t
  IN  CASE t = "jbyteArray" -> 1
        [] t = "jshortArray" -> IF second THEN 3 ELSE 2
        [] t = "jintArray" -> IF second THEN 5 ELSE 4
        [] t = "jfloatArray" -> IF second THEN 7 ELSE 6
        [] t = "jdoubleArray" -> IF second THEN 9 ELSE 8
        [] t = "jobject" -> 10
        [] OTHER -> IF e.sig \in Sig3B THEN 1 ELSE IF e.sig \in Sig3S THEN 2 ELSE 4

ArgsFor(e, salt) ==
  [i \in DOMAIN e.params |->
     IF e.params[i] \in ArrayParamTypes THEN ArgArray(e, i) ELSE i + 11 * salt]

CallAny ==
  \E i \in Entries : \E salt \in 0 .. MaxSalt :
    \E c \in AcquireFaults(Len(EntryPoints[i].views))
              \cup {[NoChoice EXCEPT !.fault = TRUE], [NoChoice EXCEPT !.write = TRUE]} :
      \E junk \in (IF EntryPoints[i].rtype # "void" /\ (c.acq > 0 \/ c.fault)
                   THEN {0, 1} ELSE {0}) :
        /\ ncalls = 0
        /\ Call(FALSE, i,
                IF Handle(EntryPoints[i]) THEN ProcAddress(EntryPoints[i].name) ELSE 0,
                ArgsFor(EntryPoints[i], salt), [c EXCEPT !.junk = junk])
        /\ ncalls' = 1

\* The Java element type a signature suffix stands for.
SuffixType(e) ==
  CASE e.sig \in Sig3B -> "byte"
    [] e.sig \in Sig3S -> "short"
    [] e.sig \in Sig3I -> "int"
    [] OTHER -> ""

\* The letters of the legend for one declared parameter.  A jarray
\* parameter stands for the array type the suffix of its overload names.
ParamLetter(e, i) ==
  LET t == e.params[i]
  IN  CASE t \in {"jint", "int"} -> "I"
        [] t = "jbyte" -> "B"
        [] t = "jshort" -> "S"
        [] t = "jfloat" -> "F"
        [] t = "jdouble" -> "D"
        [] t = "jbyteArray" -> "_3B"
        [] t = "jshortArray" -> "_3S"
        [] t = "jintArray" -> "_3I"
        [] t = "jfloatArray" -> "_3F"
        [] t = "jdoubleArray" -> "_3D"
        [] t = "jarray" -> (CASE SuffixType(e) = "byte" -> "_3B"
                              [] SuffixType(e) = "short" -> "_3S"
                              [] OTHER -> "_3I")
        [] OTHER -> "Ljava_nio_Buffer_2"

RECURSIVE MangleFrom(_, _)
MangleFrom(e, i) ==
  IF i > Len(e.params) THEN ""
  ELSE ParamLetter(e, i) \o MangleFrom(e, i + 1)

\* The argument signature of the parameter list the caller sees of entry
\* point e: J for the jlong pfunc of JNI_GL_DECLARE2, then the letters of
\* the declared parameters in order.
Mangled(e) == (IF Handle(e) THEN "J" ELSE "") \o MangleFrom(e, 1)

\* The entry points written for a declared native method: the handle entry
\* points of its name with its number of parameters and, where it takes an
\* array, its element type.
WrittenFor(k) ==
  {i \in Entries :
     /\ Handle(EntryPoints[i])
     /\ EntryPoints[i].name = NativeMethods[k].name
     /\ Len(EntryPoints[i].params) = NativeMethods[k].nparams
     /\ SuffixType(EntryPoints[i]) \in {"", NativeMethods[k].array}}

\* The exported names the runtime looks for when native method k is first
\* called: the name alone, then the name followed by __ and the argument
\* signature.
Lookup(k) ==
  {<<TRUE, NativeMethods[k].name, "">>,
   <<TRUE, NativeMethods[k].name, NativeMethods[k].sig>>}

\* The entry points a declared native method is linked to: those exported
\* under a name the runtime looks for.
Resolve(k) == {i \in Entries : Exported(EntryPoints[i]) \in Lookup(k)}

\* The runtime's answer to a call of a native method nothing is exported for.
UnsatisfiedLinkError(k) ==
  [NoCall EXCEPT !.thrown = [cls |-> "java.lang.UnsatisfiedLinkError",
                             msg |-> NativeMethods[k].name, n |-> 1],
                 !.method = k]

\* The caller invokes native method k of the declaration list.
CallDeclared ==
  \E k \in DOMAIN NativeMethods :
    /\ ncalls = 0
    /\ ncalls' = 1
    /\ IF Resolve(k) = {}
       THEN /\ last' = UnsatisfiedLinkError(k)
            /\ UNCHANGED <<gl, refgl, heap, views, held, alive, clean, thr>>
       ELSE \E i \in Resolve(k) :
              Call(FALSE, i, ProcAddress(EntryPoints[i].name),
                   ArgsFor(EntryPoints[i], 0), NoChoice)

SpecAll == Init /\ [][CallAny \/ CallDeclared]_vars

(***************************************************************************)
(* The handle entry points, called with the address of their own function, *)
(* of another function, or with no address at all.  A call through a       *)
(* pointer that is not the function's is undefined: it may fault, or the    *)
(* function at the address runs with parameters the call did not set.       *)
(***************************************************************************)
Handles == {0} \cup {ProcAddress(ExtProcs[i]) : i \in DOMAIN ExtProcs}

HandleChoices(h, fn) ==
  IF h = ProcAddress(fn) THEN {NoChoice}
  ELSE {[NoChoice EXCEPT !.fault = f, !.hits = GL_MIN] : f \in BOOLEAN}

StepExt(name, sig, h, argv, c) ==
  /\ ncalls' = ncalls + 1
  /\ Call(TRUE, EntryOf(name, sig), h, argv, c)

Java_nglBlendColor ==
  /\ Budget
  /\ \E h \in Handles :
       \E col \in (IF h = ProcAddress("glBlendColor") THEN {Red, Blue} ELSE {Red}) :
         \E c \in HandleChoices(h, "glBlendColor") :
           StepExt("glBlendColor", "", h, col, c)

Java_nglBlendEquation ==
  /\ Budget
  /\ \E h \in Handles :
       \E mode \in (IF h = ProcAddress("glBlendEquation")
                    THEN {GL_FUNC_ADD, GL_MIN} ELSE {GL_MIN}) :
         \E c \in HandleChoices(h, "glBlendEquation") :
           StepExt("glBlendEquation", "", h, <<mode>>, c)

DrawRange(sig, type, arr) ==
  \E h \in {0, ProcAddress("glDrawRangeElements")} :
    \E c \in (IF h = 0 THEN HandleChoices(h, "glDrawRangeElements")
                        ELSE AcquireFaults(1)) :
      StepExt("glDrawRangeElements", sig, h, <<GL_TRIANGLES, 0, 1, 1, type, arr>>, c)

Java_nglDrawRangeElements_3B ==
  /\ Budget
  /\ DrawRange("IIIII_3B", GL_UNSIGNED_BYTE, 1)

Java_nglDrawRangeElements_3I ==
  /\ Budget
  /\ DrawRange("IIIII_3I", GL_UNSIGNED_INT, 4)

Java_nglDrawRangeElements_3S ==
  /\ Budget
  /\ DrawRange("IIIII_3S", GL_UNSIGNED_SHORT, 2)

NextExt ==
  \/ Java_nglBlendColor \/ Java_nglBlendEquation
  \/ Java_nglDrawRangeElements_3B \/ Java_nglDrawRangeElements_3I
  \/ Java_nglDrawRangeElements_3S

SpecExt == Init /\ [][NextExt]_vars

(***************************************************************************)
(* Two threads calling entry points, each on its own current context.  An  *)
(* entry point is entered, calls its native function and returns, in three *)
(* steps of the calling thread; steps of different threads interleave.     *)
(***************************************************************************)
\* The binding takes a lock around the native call.
MayProceed_serialized(t) == \A u \in Threads \ {t} : thr[u].pc # "native"

\* What a thread inside JNI_GL_BEGIN waits for before it goes on to the
\* native call: nothing.
MayProceed(t) == TRUE

\* The native call handed to a worker thread.
Executor_worker(t) == "worker"

\* The thread the body's call statement runs on: the one that runs the body.
Executor(t) == t

ThreadCalls ==
  {[name |-> "glFinish", argv |-> <<>>], [name |-> "glFlush", argv |-> <<>>],
   [name |-> "glEnable", argv |-> <<GL_BLEND>>],
   [name |-> "glGetError", argv |-> <<>>]}

\* Thread t calls an entry point: the body is entered.
Enter ==
  \E t \in Threads : \E call \in ThreadCalls :
    /\ thr[t].pc = "idle"
    /\ thr[t].n < MaxCalls
    /\ thr' = [thr EXCEPT ![t].pc = "begun",
                          ![t].entry = EntryOf(call.name, ""),
                          ![t].argv = call.argv,
                          ![t].on = "", ![t].ret = NoValue, ![t].thrown = NoThrow]
    /\ UNCHANGED <<gl, refgl, heap, views, last, held, alive, clean, ncalls>>

\* The body reaches its call statement: the native function starts.
Invoke(t) ==
  /\ thr[t].pc = "begun"
  /\ MayProceed(t)
  /\ thr' = [thr EXCEPT ![t].pc = "native", ![t].on = Executor(t)]
  /\ UNCHANGED <<gl, refgl, heap, views, last, held, alive, clean, ncalls>>

InvokeNative == \E t \in Threads : Invoke(t)

\* The native function returns or faults, having acted on the context of
\* its thread.
NativeReturn ==
  \E t \in Threads :
    /\ thr[t].pc = "native"
    /\ \E f \in BOOLEAN :
         \E out \in {Run(TRUE, EntryPoints[thr[t].entry], 0, thr[t].argv,
                         thr[t].gl, heap, [NoChoice EXCEPT !.fault = f])} :
           thr' = [thr EXCEPT ![t].pc = "ended", ![t].gl = out.gl,
                              ![t].ret = out.ret, ![t].thrown = out.thrown,
                              ![t].nat = @ + 1]
    /\ UNCHANGED <<gl, refgl, heap, views, last, held, alive, clean, ncalls>>

\* JNI_GL_END: the entry point returns to its caller.
Return ==
  \E t \in Threads :
    /\ thr[t].pc = "ended"
    /\ thr' = [thr EXCEPT ![t].pc = "idle", ![t].n = @ + 1]
    /\ UNCHANGED <<gl, refgl, heap, views, last, held, alive, clean, ncalls>>

NextThreads == Enter \/ InvokeNative \/ NativeReturn \/ Return

SpecThreads == Init /\ [][NextThreads]_vars

(***************************************************************************)
(* Texture names: sequences of glGenTextures and glDeleteTextures calls on  *)
(* the caller's two int arrays.                                             *)
(***************************************************************************)
SeqBudget == ncalls < MaxSeq

GenTextures ==
  /\ SeqBudget
  /\ \E n \in {1, MaxLen} : \E textures \in {4, 5} : \E c \in AcquireFaults(1) :
       Step("glGenTextures", "", <<n, textures>>, c)

DeleteTextures ==
  /\ SeqBudget
  /\ \E n \in {1, MaxLen} : \E textures \in {4, 5} :
       Step("glDeleteTextures", "", <<n, textures>>, NoChoice)

SpecTex == Init /\ [][GenTextures \/ DeleteTextures]_vars

(***************************************************************************)
(* Pointers the library keeps: glVertexPointer and glSelectBuffer on the    *)
(* caller's direct buffer, then the calls that read or write through them.  *)
(***************************************************************************)
Java_glVertexPointer ==
  /\ SeqBudget
  /\ \E size \in {2, 3} : \E c \in AcquireFaults(1) :
       Step("glVertexPointer", "", <<size, GL_INT, 0, 10>>, c)

Java_glSelectBuffer ==
  /\ SeqBudget
  /\ \E c \in AcquireFaults(1) : Step("glSelectBuffer", "", <<MaxLen, 10>>, c)

Java_glDrawArrays ==
  /\ SeqBudget
  /\ \E count \in {0, 1} : Step("glDrawArrays", "", <<GL_TRIANGLES, 0, count>>, NoChoice)

SelectMode ==
  /\ SeqBudget
  /\ \E mode \in {GL_RENDER, GL_SELECT} :
       Step("glRenderMode", "", <<mode>>,
            [NoChoice EXCEPT !.hits = IF gl.renderMode = GL_SELECT THEN 1 ELSE 0])

SpecPtr ==
  Init /\ [][Java_glVertexPointer \/ Java_glSelectBuffer \/ Java_glDrawArrays
             \/ SelectMode]_vars

(***************************************************************************)
(* Signed scalars bound for unsigned native parameters.                    *)
(***************************************************************************)
Java_glIndexub ==
  /\ Budget
  /\ \E c \in {0 - 1, 0 - 128, 127} : Step("glIndexub", "", <<c>>, NoChoice)

Java_glLineStipple ==
  /\ Budget
  /\ \E pattern \in {0 - 1, 0 - 32768, 255} :
       Step("glLineStipple", "", <<1, pattern>>, NoChoice)

Java_glStencilMask ==
  /\ Budget
  /\ \E mask \in {0 - 1, 0 - 2147483647 - 1, 255} :
       Step("glStencilMask", "", <<mask>>, NoChoice)

Java_glIndexMask ==
  /\ Budget
  /\ \E mask \in {0 - 1, 1} : Step("glIndexMask", "", <<mask>>, NoChoice)

SpecScalar ==
  Init /\ [][Java_glIndexub \/ Java_glLineStipple \/ Java_glStencilMask
             \/ Java_glIndexMask \/ Java_glBindTexture]_vars

(***************************************************************************)
(* Properties.                                                             *)
(***************************************************************************)
Last == EntryPoints[last.entry]

Called(name) == last.entry # 0 /\ Last.name = name

\* The 32-bit pattern u stands for the integer x modulo 2^32.
Mod32Eq(u, x) ==
  /\ u.hi \in 0 .. 65535
  /\ u.lo \in 0 .. 65535
  /\ IF x >= 0 THEN u.hi < 32768 /\ u.hi * 65536 + u.lo = x
               ELSE u.hi >= 32768 /\ (u.hi - 65536) * 65536 + u.lo = x

\* The value the caller got is the result the direct native call gave.
ReturnsSame ==
  CASE last.direct.t = "GLboolean" ->
         /\ last.ret.t = "jboolean"
         /\ (last.ret.v = JNI_TRUE) = (last.direct.v # GL_FALSE)
         /\ (last.ret.v = JNI_FALSE) = (last.direct.v = GL_FALSE)
    [] last.direct.t = "GLuint" ->
         last.ret.t = "jint" /\ Mod32Eq(last.direct.v, last.ret.v)
    [] last.direct.t = "GLint" ->
         last.ret.t = "jint" /\ last.ret.v = last.direct.v
    [] last.direct.t = "ptr" ->
         IF last.direct.v = 0 THEN last.ret = JNull
         ELSE last.ret.t = "jstring" /\ last.ret.chars = last.dbytes
    [] OTHER -> last.ret = NoValue

\* C1: as long as no call has faulted, the native library driven through the
\* entry points is in the same state as the one driven by the same native
\* calls made directly, and the latest call returned what the direct native
\* call returned.
C1_SameAsDirect == clean => (gl = refgl /\ ReturnsSame)

\* glClearColor(1,0,0,1) then glClear(GL_COLOR_BUFFER_BIT): the framebuffer
\* is opaque red in both libraries.
C1_Witness ==
  /\ clean /\ Called("glClear") /\ last.argv = <<GL_COLOR_BUFFER_BIT>>
  /\ gl.fb = Red /\ refgl.fb = Red

\* C2: the native call of every entry point is one call of the function of
\* the entry point's name whose i-th argument is the entry point's i-th
\* parameter: the scalar itself, or a pointer to the view of that array.
C2_Positional ==
  (last.entry # 0 /\ last.calls # <<>>) =>
     /\ Len(last.calls) = 1
     /\ last.calls[1].fn = Last.name
     /\ Len(last.calls[1].a) = Len(Last.params)
     /\ \A i \in DOMAIN last.calls[1].a :
          LET x == last.calls[1].a[i]
          IN  IF Last.params[i] \in ArrayParamTypes
              THEN /\ x.ptr \in DOMAIN last.vin
                   /\ last.vin[x.ptr].arr = last.argv[i]
              ELSE x = [ptr |-> 0, val |-> last.argv[i]]

\* glMap2d, with its ten parameters, has made its native call.
C2_Witness ==
  /\ Called("glMap2d") /\ last.calls # <<>> /\ last.thrown = NoThrow
  /\ last.argv[4] # last.argv[5]

\* C3: a native-level fault raised inside a call, the acquisition of a view
\* included, reaches the caller as exactly one java.lang.RuntimeException
\* carrying the fault's description; it never leaves the entry point
\* untranslated, and a call without a fault throws nothing.
C3_OneRuntimeFault ==
  last.entry # 0 =>
     /\ last.thrown.cls # "native"
     /\ IF last.fault # ""
        THEN last.thrown =
               [cls |-> "java.lang.RuntimeException", msg |-> last.fault, n |-> 1]
        ELSE last.thrown = NoThrow

\* A handle entry point faulted while its view was being acquired, and a
\* RuntimeException came out.
C3_Witness ==
  /\ Called("glDrawRangeElements") /\ last.fault = "view" /\ last.calls = <<>>
  /\ last.thrown.n = 1

\* C4: a fault ends the call it was raised in and nothing else: the process
\* lives on, the glue holds nothing, the native library is where the direct
\* native calls put it, and a later call returns what the direct call does.
C4_FaultAbortsOnlyCall ==
  /\ alive
  /\ ~clean => /\ views = {}
               /\ gl = refgl
               /\ (last.thrown = NoThrow => ReturnsSame)

\* A value-returning call completed after an earlier call had faulted.
C4_Witness ==
  /\ last.faulted /\ last.thrown = NoThrow /\ last.calls # <<>>
  /\ last.ret.t = "jboolean"

\* The places of event ev of view k in the latest call.
At(ev, k) == {j \in DOMAIN last.events : last.events[j] = Ev(ev, k)}

\* C5: in a call every view is acquired once, before the native call, and
\* released once, after it and before the fault (if any) is signalled; the
\* native call is made with all views acquired; no view outlives a call.
C5_ViewsWithinCall ==
  /\ views = {}
  /\ last.entry # 0 =>
       /\ last.calls # <<>> => Len(last.vin) = Len(Last.views)
       /\ \A j \in DOMAIN last.events :
            last.events[j].ev \in {"acquire", "release"}
              => last.events[j].k \in DOMAIN last.vin
       /\ \A k \in DOMAIN last.vin :
            /\ Cardinality(At("acquire", k)) = 1
            /\ Cardinality(At("release", k)) = 1
            /\ \A x \in At("acquire", k) : \A r \in At("release", k) :
                 /\ x < r
                 /\ \A n \in At("native", 0) : x < n /\ n < r
                 /\ \A t \in At("throw", 0) : r < t

\* glAreTexturesResident, with its two views, faulted in the native call.
C5_Witness ==
  /\ Called("glAreTexturesResident") /\ Len(last.vin) = 2
  /\ last.fault = "access violation" /\ last.thrown.n = 1

\* The managed element x holds the native element u of an array of element
\* type et seen through a view of type vt.
Holds(vt, et, u, x) ==
  LET raw == vt \in {"JvoidArray", "JvoidBuffer"}
  IN  CASE vt \in {"JuintArray", "JuintBuffer"} \/ (raw /\ et = "int") ->
             Mod32Eq(u, x)
        [] vt = "JubyteArray" \/ (raw /\ et = "byte") ->
             u \in 0 .. 255 /\ x \in -128 .. 127 /\ (x - u) % 256 = 0
        [] vt = "JushortArray" \/ (raw /\ et = "short") ->
             u \in 0 .. 65535 /\ x \in -32768 .. 32767 /\ (x - u) % 65536 = 0
        [] OTHER -> x = u

\* C6: when a call of an output function returns, each array it was given
\* has been committed once, after the native call: an element the native
\* function changed holds the value it wrote, every other element holds
\* what it held before the call.
C6_OutputCommitted ==
  (last.entry # 0 /\ Last.name \in OutputFns /\ last.calls # <<>>
     /\ last.thrown = NoThrow) =>
    \A k \in DOMAIN last.vout :
      LET v == last.vout[k]
      IN  /\ Cardinality(At("release", k)) = 1
          /\ \A r \in At("release", k) : \A n \in At("native", 0) : n < r
          /\ \A i \in DOMAIN heap[v.arr] :
               IF v.mem[i] # last.vin[k].mem[i]
               THEN Holds(v.t, ElemType(v.arr), v.mem[i], heap[v.arr][i])
               ELSE heap[v.arr][i] = last.pre[v.arr][i]

\* glGenTextures(1, a) changed the first element of a and left the second.
C6_Witness ==
  /\ Called("glGenTextures") /\ last.argv[1] = 1 /\ last.thrown = NoThrow
  /\ heap[last.argv[2]][1] # last.pre[last.argv[2]][1]
  /\ heap[last.argv[2]][2] = last.pre[last.argv[2]][2]

\* The array and buffer parameters whose native counterpart is unsigned.
UnsignedParams ==
  {<<"glAreTexturesResident", 2>>, <<"glAreTexturesResident", 3>>,
   <<"glDeleteTextures", 2>>, <<"glGenTextures", 2>>,
   <<"glPrioritizeTextures", 2>>, <<"glPixelMapuiv", 3>>,
   <<"glPixelMapusv", 3>>, <<"glGetPixelMapuiv", 2>>,
   <<"glGetPixelMapusv", 2>>, <<"glBitmap", 7>>, <<"glEdgeFlagv", 1>>,
   <<"glGetBooleanv", 2>>, <<"glPolygonStipple", 1>>,
   <<"glGetPolygonStipple", 1>>, <<"glIndexubv", 1>>, <<"glSelectBuffer", 2>>}

UnsignedView(et, ptype) ==
  CASE et = "byte" -> "JubyteArray"
    [] et = "short" -> "JushortArray"
    [] OTHER -> IF ptype = "jobject" THEN "JuintBuffer" ELSE "JuintArray"

\* C7: each of these parameters is wrapped in the unsigned view of its
\* element width; the native function finds in it every element of the
\* array modulo 2^w, and what the array holds after the call is what the
\* native memory held, modulo 2^w.
C7_UnsignedBits ==
  last.entry # 0 =>
    \A up \in UnsignedParams :
      up[1] = Last.name =>
        /\ \E k \in DOMAIN Last.views : Last.views[k].p = up[2]
        /\ \A k \in DOMAIN last.vin :
             Last.views[k].p = up[2] =>
               LET v == last.vin[k]
                   et == ElemType(v.arr)
               IN  /\ v.t = UnsignedView(et, Last.params[up[2]])
                   /\ \A i \in DOMAIN v.mem :
                        /\ Holds(v.t, et, v.mem[i], last.pre[v.arr][i])
                        /\ Holds(v.t, et, last.vout[k].mem[i], heap[v.arr][i])

\* glGetPixelMapusv: the native function wrote 65535 and the array shows -1,
\* next to an element that went in as -1 and out again.
C7_Witness ==
  /\ Called("glGetPixelMapusv") /\ last.thrown = NoThrow
  /\ last.vout[1].mem[1] = 65535 /\ heap[last.argv[2]][1] = 0 - 1
  /\ last.vin[1].mem[1] # 65535
  /\ \E i \in DOMAIN last.vin[1].mem :
       last.pre[last.argv[2]][i] = 0 - 1 /\ last.vin[1].mem[i] = 65535

BooleanEntries == {"glAreTexturesResident", "glIsEnabled", "glIsList", "glIsTexture"}

\* C8: a boolean entry point returns JNI_TRUE when the native function
\* returned GL_TRUE and JNI_FALSE when it returned GL_FALSE, never anything
\* else, and JNI_TRUE only for GL_TRUE.
C8_BooleanResult ==
  (last.entry # 0 /\ Last.name \in BooleanEntries /\ last.thrown = NoThrow) =>
     /\ last.ret.t = "jboolean"
     /\ last.ret.v \in {JNI_TRUE, JNI_FALSE}
     /\ last.res.v = GL_TRUE => last.ret.v = JNI_TRUE
     /\ last.res.v = GL_FALSE => last.ret.v = JNI_FALSE
     /\ last.ret.v = JNI_TRUE => last.res.v = GL_TRUE

\* glAreTexturesResident returned true.
C8_Witness ==
  /\ Called("glAreTexturesResident") /\ last.thrown = NoThrow
  /\ last.res.v = GL_TRUE /\ last.ret.v = JNI_TRUE

IntEntries == {"glGenLists", "glGetError", "glRenderMode"}

\* C9: glGenLists, glGetError and glRenderMode return the native result with
\* its 32 bits unchanged: a GLint as it is, a GLuint modulo 2^32, so that a
\* result of 2^31 or more comes out negative.
C9_IntResult ==
  (last.entry # 0 /\ Last.name \in IntEntries /\ last.thrown = NoThrow) =>
     /\ last.ret.t = "jint"
     /\ last.res.t = "GLint" => last.ret.v = last.res.v
     /\ last.res.t = "GLuint" =>
          /\ Mod32Eq(last.res.v, last.ret.v)
          /\ last.res.v.hi >= 32768 => last.ret.v < 0

\* glGenLists returned a list name of 2^31 or more.
C9_Witness ==
  /\ Called("glGenLists") /\ last.thrown = NoThrow
  /\ last.res.v.hi >= 32768 /\ last.ret.v < 0

\* C10: the string a glGetString call returned holds, whenever it is read,
\* the characters the native string had when the call was made.
C10_StringCopy ==
  held # NoString =>
    /\ held.s.t = "jstring"
    /\ CharsOf(held.s, gl) = held.snap

\* The string was returned, the driver's string changed, another call was
\* made.
C10_Witness ==
  /\ held # NoString /\ held.snap = Acme /\ gl.driver = Mesa
  /\ Called("glGetError")

ExtNames == {ExtProcs[i] : i \in DOMAIN ExtProcs}

\* Argument i of the native call is parameter i of the entry point: its
\* value, or the view of the array passed for it.
PassesParam(i) ==
  LET x == last.calls[1].a[i]
  IN  IF Last.params[i] \in ArrayParamTypes
      THEN x.ptr \in DOMAIN last.vin /\ last.vin[x.ptr].arr = last.argv[i]
      ELSE x = [ptr |-> 0, val |-> last.argv[i]]

\* The entry points that declare the handle are those of the functions
\* behind handles.
HandleDeclared ==
  LET T == EntryPoints
  IN  \A i \in DOMAIN T : (T[i].decl = "JNI_GL_DECLARE2") <=> (T[i].name \in ExtNames)

\* C11: the entry points of glBlendColor, glBlendEquation and
\* glDrawRangeElements, and no others, declare the handle before the
\* function's parameters; a call of one of them whose views were acquired
\* makes one native call, to the function at the address of that call's
\* handle, with the parameters in order, whatever the handle is (the
\* function's own address, another function's, or zero).
C11_HandleCalled ==
  /\ HandleDeclared
  /\ (last.entry # 0 /\ Last.name \in ExtNames /\ last.fault # "view") =>
       /\ Len(last.calls) = 1
       /\ \A f \in ExtNames :
            last.handle = ProcAddress(f) => last.calls[1].fn = f
       /\ last.handle = 0 => last.calls[1].fn \notin ExtNames
       /\ Len(last.calls[1].a) = Len(Last.params)
       /\ \A i \in DOMAIN Last.params : PassesParam(i)

\* nglBlendColor was called with the address of glBlendEquation: that
\* function ran, and nothing was thrown.
C11_Witness ==
  /\ Called("glBlendColor") /\ last.handle = ProcAddress("glBlendEquation")
  /\ last.calls # <<>> /\ last.calls[1].fn = "glBlendEquation"
  /\ last.thrown = NoThrow /\ gl.blendEquation = GL_MIN

\* The native functions callable with byte, short or int arrays.
OverloadedFns ==
  {"glCallLists", "glDrawElements", "glDrawPixels", "glGetTexImage",
   "glReadPixels", "glTexImage1D", "glTexImage2D", "glTexSubImage1D",
   "glTexSubImage2D", "glDrawRangeElements"}

\* No two entry points of the file are exported under one name.
DistinctExports ==
  LET T == EntryPoints
  IN  Cardinality({Exported(T[i]) : i \in DOMAIN T}) = Len(T)

\* Each overloaded function has three entry points, one with the suffix of
\* each element type, that name the same native function and pass it the
\* same argument list.
ThreeEach ==
  LET T == EntryPoints
      Over == {i \in DOMAIN T : T[i].name \in OverloadedFns}
  IN  \A fn \in OverloadedFns :
        LET Family == {i \in Over : T[i].name = fn}
        IN  /\ Cardinality(Family) = 3
            /\ \A S \in {Sig3B, Sig3S, Sig3I} :
                 Cardinality({i \in Family : T[i].sig \in S}) = 1
            /\ \A i, j \in Family :
                 /\ T[i].native = fn
                 /\ T[i].args = T[j].args
                 /\ Len(T[i].params) = Len(T[j].params)

\* C12: every function callable with byte, short or int arrays has exactly
\* three entry points, one per element type, exported under names that
\* differ from each other and from every other exported name; a call of any
\* of the three reaches the one native function with the parameters in
\* order.
C12_ThreeOverloads ==
  /\ DistinctExports
  /\ ThreeEach
  /\ (last.entry # 0 /\ Last.name \in OverloadedFns /\ last.calls # <<>>) =>
       /\ last.calls[1].fn = Last.name
       /\ \A i \in DOMAIN Last.params : PassesParam(i)

\* The short overload of glDrawPixels passed a short array to glDrawPixels.
C12_Witness ==
  /\ Called("glDrawPixels") /\ Last.sig \in Sig3S /\ last.calls # <<>>
  /\ last.calls[1].fn = "glDrawPixels"
  /\ ElemType(last.argv[5]) = "short" /\ last.vin[1].arr = last.argv[5]

\* C13: every native method of the OpenGL 1.2 declaration list has an
\* exported entry point, so that a call of any declared method reaches a
\* binding function and never fails to link.
C13_EveryDeclaredExported ==
  /\ last.thrown.cls # "java.lang.UnsatisfiedLinkError"
  /\ last.method # 0 => last.entry # 0

\* The bodies that name the library's glGetError.
OnlyGetError ==
  LET T == EntryPoints
  IN  \A i \in DOMAIN T : T[i].native = "glGetError" => T[i].name = "glGetError"

\* C14: only the glGetError entry point calls the library's glGetError.  The
\* error pending after a call is the one the direct native calls leave: a
\* call of another entry point keeps an error that was pending, and a call
\* of glGetError returns the pending error and clears it.
C14_ErrorUntouched ==
  /\ OnlyGetError
  /\ gl.err = refgl.err
  /\ last.entry # 0 =>
       /\ \A k \in DOMAIN last.calls :
            last.calls[k].fn = "glGetError" => Last.name = "glGetError"
       /\ (Last.name # "glGetError" /\ last.pgl.err # GL_NO_ERROR) =>
            gl.err = last.pgl.err
       /\ (Last.name = "glGetError" /\ last.thrown = NoThrow) =>
            /\ last.ret = JInt(last.pgl.err)
            /\ gl.err = GL_NO_ERROR

\* glGetError returned the error an earlier call of another entry point
\* had left.
C14_Witness ==
  /\ Called("glGetError") /\ last.before.entry # 0
  /\ EntryPoints[last.before.entry].name = "glEnable"
  /\ last.pgl.err = GL_INVALID_ENUM /\ last.ret.v = GL_INVALID_ENUM
  /\ gl.err = GL_NO_ERROR

\* Arguments the library rejects, with the error it records for them: a
\* capability that is none (invalid enum), a map size of zero (out of
\* range).
Rejected ==
  CASE Last.name \in {"glEnable", "glDisable", "glIsEnabled"} /\ last.argv[1] = 0 ->
         GL_INVALID_ENUM
    [] Last.name = "glPixelMapusv" /\ last.argv[2] < 1 -> GL_INVALID_VALUE
    [] OTHER -> GL_NO_ERROR

Again == Run(TRUE, Last, last.handle, last.argv, last.pgl, last.pre, last.env)

C19_Synchronous ==
  \A t \in Threads :
    /\ thr[t].pc \in {"native", "ended"} => thr[t].on = t
    /\ thr[t].nat = thr[t].n + (IF thr[t].pc = "ended" THEN 1 ELSE 0)
    /\ thr[t].pc = "idle" => thr[t].nat = thr[t].n

\* A thread is back from glFinish, which ran on it, while the other thread
\* is still inside its native call.
C19_Witness ==
  /\ thr["t1"].pc = "idle" /\ thr["t1"].n = 1 /\ thr["t1"].nat = 1
  /\ thr["t1"].entry = EntryOf("glFinish", "") /\ thr["t1"].on = "t1"
  /\ thr["t2"].pc = "native"

\* The unsigned-byte output parameter of an entry point (0: none).
ByteOut ==
  CASE Last.name = "glGetBooleanv" -> 2
    [] Last.name = "glGetPolygonStipple" -> 1
    [] Last.name = "glAreTexturesResident" -> 3
    [] OTHER -> 0

\* The views of the latest call that wrap its unsigned-byte output.
ByteOutViews ==
  {k \in DOMAIN last.vout : last.entry # 0 /\ Last.views[k].p = ByteOut}

\* C20 as the specification states it: after an output-producing call no
\* element the native function wrote shows, in the caller's byte array, a
\* value outside 0 .. 255.
C20_NeverOutside0to255 ==
  (last.entry # 0 /\ ByteOut # 0 /\ last.thrown = NoThrow) =>
    \A k \in ByteOutViews : \A i \in DOMAIN last.vout[k].mem :
      last.vout[k].mem[i] # last.vin[k].mem[i]
        => heap[last.vout[k].arr][i] \in 0 .. 255

\* C20, amended: after an output-producing call the caller's byte array
\* holds, for each unsigned byte u of the native memory, the signed byte
\* with the same bits: u itself below 128, u - 256 from 128 on; its
\* elements lie in -128 .. 127.
C20_BytesReinterpreted ==
  (last.entry # 0 /\ ByteOut # 0 /\ last.thrown = NoThrow) =>
    \A k \in ByteOutViews : \A i \in DOMAIN last.vout[k].mem :
      LET u == last.vout[k].mem[i]
          x == heap[last.vout[k].arr][i]
      IN  /\ u \in 0 .. 255
          /\ x \in -128 .. 127
          /\ x = IF u >= 128 THEN u - 256 ELSE u

\* glGetPolygonStipple wrote the byte 255 over another value, and the
\* caller's array shows -1.
C20_Witness ==
  /\ Called("glGetPolygonStipple") /\ last.thrown = NoThrow
  /\ \E i \in DOMAIN last.vout[1].mem :
       /\ last.vout[1].mem[i] = 255 /\ last.vin[1].mem[i] # 255
       /\ heap[last.argv[1]][i] = 0 - 1

\* The number of elements the pixel transfer of the latest call writes (one
\* component per pixel, of the element type of the target array).
Transfer == last.argv[3] * last.argv[4]

\* The latest call was a glReadPixels whose native call was made on a target
\* array with fewer elements than the transfer writes.
TargetTooSmall ==
  /\ Called("glReadPixels") /\ last.calls # <<>>
  /\ last.argv[3] > 0 /\ last.argv[4] > 0
  /\ Transfer > Len(last.pre[last.argv[7]])

\* C21: a pixel-transfer call whose target array is smaller than the
\* transfer requires reaches the caller as one java.lang.RuntimeException,
\* and the process lives on with no view held.
C21_ShortTargetFaults ==
  TargetTooSmall =>
     /\ last.thrown.cls = "java.lang.RuntimeException" /\ last.thrown.n = 1
     /\ alive /\ views = {}

\* The identifiers the latest call left in the first n elements of its
\* array parameter.
Generated == [i \in 1 .. last.argv[1] |-> heap[last.argv[2]][i]]

\* C22: after any sequence of glGenTextures and glDeleteTextures calls, a
\* glGenTextures call for n identifiers on an array of at least n elements
\* leaves n pairwise distinct nonzero identifiers, none of them a name that
\* was in use (generated and not deleted) when the call was made.
C22_FreshTextureNames ==
  (/\ Called("glGenTextures") /\ last.thrown = NoThrow
   /\ last.argv[1] \in 1 .. Len(last.pre[last.argv[2]])) =>
     \A i \in DOMAIN Generated :
       /\ Generated[i] # 0
       /\ U32(Generated[i]) \notin last.pgl.names
       /\ U32(Generated[i]) \in gl.names
       /\ \A j \in DOMAIN Generated : j # i => Generated[j] # Generated[i]

\* Generate, delete, generate: the third call filled a whole array while
\* names of the first call were still in use.
C22_Witness ==
  /\ Called("glGenTextures") /\ last.thrown = NoThrow /\ ncalls = 3
  /\ last.before.entry = EntryOf("glDeleteTextures", "")
  /\ last.argv[1] = MaxLen /\ last.pgl.names # {}
  /\ Cardinality(gl.names) > MaxLen

\* The library state the native function of the latest call left behind,
\* computed from the state and memory it was called on.
LeftBehind ==
  IF last.calls = <<>> THEN last.pgl
  ELSE Native(TRUE, last.calls[1].fn, last.pgl, last.calls[1].a, last.vin,
              last.env).gl

\* C23: after a call that faulted the library is in the state the native
\* function left behind (the state before the call when the fault came
\* before the native call), the binding has made no native call besides the
\* one of the entry point, and the caller has received no result value.
C23_NoRollback ==
  (last.entry # 0 /\ last.fault # "") =>
     /\ [gl EXCEPT !.driver = last.pgl.driver] = LeftBehind
     /\ Len(last.calls) <= 1
     /\ Cardinality({j \in DOMAIN last.events : last.events[j].ev = "native"})
          = Len(last.calls)
     /\ last.ret = NoValue

\* glGenTextures asked for more names than its array holds and faulted in
\* the overrun: the names it had generated are in use all the same.
C23_Witness ==
  /\ Called("glGenTextures") /\ last.fault = "access violation"
  /\ last.thrown.n = 1 /\ last.calls # <<>>
  /\ gl.names # last.pgl.names

\* C24: the signature suffix of an entry point that has one is the argument
\* signature of its complete caller-visible parameter list, the leading
\* long handle of a handle entry point included, so that the exported name
\* is one the runtime looks for.
C24_SuffixIsSignature ==
  /\ (last.entry # 0 /\ Last.sig # "") => Last.sig = Mangled(Last)
  /\ last.method # 0 => WrittenFor(last.method) \subseteq Resolve(last.method)

\* The entry points whose native function keeps the pointer it is given.
Retaining ==
  {"glColorPointer", "glEdgeFlagPointer", "glIndexPointer", "glNormalPointer",
   "glTexCoordPointer", "glVertexPointer", "glInterleavedArrays",
   "glFeedbackBuffer", "glSelectBuffer"}

\* C25: every entry point whose native function keeps its pointer declares
\* that parameter as a direct buffer (jobject behind a J*Buffer view) and
\* has no array parameter, so the pointers the library keeps, and the one a
\* later call such as glDrawArrays or glRenderMode last read or wrote
\* through, are never the memory of a released array view.
C25_KeptPointersAreBuffers ==
  /\ \A i \in Entries :
       EntryPoints[i].name \in Retaining =>
         /\ Len(EntryPoints[i].views) = 1
         /\ EntryPoints[i].views[1].t \in BufferViews
         /\ \A p \in DOMAIN EntryPoints[i].params :
              /\ EntryPoints[i].params[p] \in ArrayParamTypes =>
                   EntryPoints[i].params[p] = "jobject"
              /\ EntryPoints[i].params[p] = "jobject" =>
                   EntryPoints[i].views[1].p = p
  /\ gl.vertexPointer.kind # "view"
  /\ gl.selectBuffer.kind # "view"
  /\ gl.deref.kind # "view"

\* glSelectBuffer on the direct buffer, selection mode entered and left:
\* the hit records were written through the buffer's own memory, after the
\* view of the glSelectBuffer call was gone.
C25_Witness ==
  /\ Called("glRenderMode") /\ ncalls = 3 /\ views = {}
  /\ last.pgl.renderMode = GL_SELECT
  /\ gl.deref = [kind |-> "buffer", arr |-> 10]

\* The value-returning entry points.
Returning == {i \in Entries : EntryPoints[i].rtype # "void"}

\* C26: when the native call of a value-returning entry point faults, the
\* entry point returns, along with the exception, the zero of its return
\* type: 0, false or null.
C26_DefinedReturnOnFault ==
  (last.entry \in Returning /\ last.thrown.n = 1) =>
    last.returned =
      (CASE Last.rtype = "jint" -> JInt(0)
         [] Last.rtype = "jboolean" -> JBoolean(JNI_FALSE)
         [] OTHER -> JNull)

\* C27: when the native glGetString returns the null pointer, the
\* glGetString entry point returns the null reference and throws nothing.
C27_NullStringReturned ==
  (Called("glGetString") /\ last.calls # <<>> /\ last.res.t = "ptr"
   /\ last.res.v = 0) =>
     /\ last.thrown = NoThrow
     /\ last.ret = JNull

\* The unsigned w-bit integer u stands for the integer x modulo 2^w.
ModEq(u, x, w) == u \in 0 .. (w - 1) /\ (u - x) % w = 0

\* C28: a signed scalar bound for an unsigned native parameter reaches the
\* native function as its value modulo 2^w: the jbyte of glIndexub modulo
\* 2^8, the jshort pattern of glLineStipple modulo 2^16, the jint of
\* glStencilMask, glIndexMask and glBindTexture modulo 2^32; the signed jint
\* factor of glLineStipple arrives as it is.
C28_ScalarBits ==
  (last.entry # 0 /\ last.thrown = NoThrow) =>
    /\ Called("glIndexub") => ModEq(gl.index, last.argv[1], 256)
    /\ Called("glLineStipple") =>
         /\ gl.lineStipple[1] = last.argv[1]
         /\ ModEq(gl.lineStipple[2], last.argv[2], 65536)
    /\ Called("glStencilMask") => Mod32Eq(gl.stencilMask, last.argv[1])
    /\ Called("glIndexMask") => Mod32Eq(gl.indexMask, last.argv[1])
    /\ Called("glBindTexture") =>
         \E u \in gl.bound : Mod32Eq(u, last.argv[2])

\* glLineStipple with a negative pattern, then glIndexub(-1): the index the
\* library holds is 255.
C28_Witness ==
  /\ Called("glIndexub") /\ last.argv = <<0 - 1>> /\ gl.index = 255
  /\ last.pgl.index # 255
  /\ last.before.entry = EntryOf("glLineStipple", "")
  /\ gl.lineStipple[2] \in {65535, 32768}

\* C29: after a call of an entry point whose native function only reads its
\* arrays, every array of the caller holds what it held before the call,
\* whether the call returned or faulted; glFogfv marshals its array through
\* the view type that glGetFloatv uses for its output.
C29_ReadOnlyArraysUnchanged ==
  (last.entry # 0 /\ Last.name \notin OutputFns) =>
    /\ heap = last.pre
    /\ \A k \in DOMAIN last.vout : last.vout[k].mem = last.vin[k].mem
    /\ Called("glFogfv") =>
         Last.views[1].t = EntryPoints[EntryOf("glGetFloatv", "")].views[1].t

\* glFogfv made its native call on a JfloatArray view, the view was
\* released, and the float array is as it was.
C29_Witness ==
  /\ Called("glFogfv") /\ last.thrown = NoThrow /\ last.calls # <<>>
  /\ last.vin[1].t = "JfloatArray"
  /\ At("release", 1) # {}
  /\ heap[last.argv[2]] = last.pre[last.argv[2]]
  /\ \E i \in DOMAIN heap[last.argv[2]] : heap[last.argv[2]][i] < 0
=============================================================================
